---- MODULE Spec2Model ----
(***************************************************************************)
(* Model of the flymate price-watch worker (bot/worker.py) and of the      *)
(* subscription repository it uses (bot/db/repo_subscriptions.py).         *)
(*                                                                         *)
(* Encodings.  A date is the integer yyyymmdd, a departure timestamp the   *)
(* integer yyyymmddhh, a "%Y-%m" token the tuple <<y, m>>, a "%Y-%m-%d"    *)
(* string the tuple <<y, m, d>>.  Wall-clock instants are seconds.         *)
(* Python's None is -1 for numbers and timestamps.  Prices are whole       *)
(* amounts; the text Redis holds for the float 970.0 ("970.0") is the      *)
(* integer 9700, its digits without the point.                             *)
(***************************************************************************)
EXTENDS Integers, Sequences, FiniteSets, TLC

\* ------------------------------------------------------------------ bounds
MaxDay == 6            \* days modelled in every month
MaxCycles == 2         \* polling cycles of the worker loop in one run
MaxOffers == 2         \* longest offer list of the thin route
MaxCacheFaults == 1    \* Redis or database calls that raise in one run
MaxTicks == 2          \* minutes that pass between direct repository calls
SmallLimit == 1        \* the small page size fetch_due is called with
SpanYears == 1         \* years after 2025 that date intervals reach into
MaxSubs == 2           \* watches created in one run

\* ------------------------------------------------------- program constants
LateCap == 10 + 1                  \* a cap that lets an eleventh candidate in
NotifyCap == 10                    \* worker.py:368, 374
batch_size == 5                    \* worker.py:382
TTL90 == 7776000                   \* 90 * 24 * 60 * 60, worker.py:463
SleepSeconds == 300                \* worker.py:523, 539
FetchLimit == 200                  \* worker.py:519
None == -1
NoTTL == -2                        \* a key that has no expiry set

\* ------------------------------------------------------------------- dates
Date(y, m, d) == y * 10000 + m * 100 + d
Year(dt) == dt \div 10000
Month(dt) == (dt \div 100) % 100
Day(dt) == dt % 100

\* cur.strftime("%Y-%m")
strftime_Ym(dt) == <<Year(dt), Month(dt)>>

\* departure_date.strftime("%Y-%m-%d")
strftime_Ymd(dt) == <<Year(dt), Month(dt), Day(dt)>>

\* dtparse.isoparse(dep).date()
isoparse_date(dep) == dep \div 100

RECURSIVE month_loop(_, _, _)
month_loop(cur, last, out) ==
    IF cur <= last
    THEN month_loop(IF Month(cur) = 12
                    THEN Date(Year(cur) + 1, 1, 1)
                    ELSE Date(Year(cur), Month(cur) + 1, 1),
                    last,
                    Append(out, strftime_Ym(cur)))
    ELSE out

\* a span that starts counting at d1 itself, not at the first of its month
month_span_from_day(d1, d2) ==
    month_loop(d1, Date(Year(d2), Month(d2), 1), <<>>)

\* lines 67-79
month_span(d1, d2) ==
    month_loop(Date(Year(d1), Month(d1), 1), Date(Year(d2), Month(d2), 1), <<>>)

\* a key that leaves the departure date out
price_tracking_key_per_route(sub_id, origin, destination, departure_date, direct) ==
    <<"subs", sub_id, "minprice", origin, destination,
      IF direct THEN "direct" ELSE "transfer">>

\* lines 82-89: subs:{id}:minprice:{origin}:{destination}:{date}:{direct}
price_tracking_key(sub_id, origin, destination, departure_date, direct) ==
    <<"subs", sub_id, "minprice", origin, destination, departure_date,
      IF direct THEN "direct" ELSE "transfer">>

\* str(new_price) of a float holding a whole amount: "970.0"
str_float(p) == p * 10

\* float(stored_min)
float_str(s) == s \div 10


\* -------------------------------------------------------------- the store
\* FlightSubscription rows (bot/db/models.py); the table maps id -> row
Row(id, user_id, origin, destination, range_from, range_to, interval, nca) ==
    [id |-> id, user_id |-> user_id, origin |-> origin, destination |-> destination,
     range_from |-> range_from, range_to |-> range_to, direct |-> FALSE,
     max_price |-> 1000, currency |-> "RUB", active |-> TRUE,
     check_interval_minutes |-> interval,
     last_checked_at |-> None, next_check_at |-> nca]

\* the local `sub` of loop_worker when no subscription is being processed
NoSub == Row(None, None, "", "", None, None, 0, None)

\* a filter that forgets the rows never checked
IsDueScheduledOnly(row, nw) ==
    /\ row.active = TRUE
    /\ row.next_check_at # None
    /\ row.next_check_at <= nw

\* a filter that forgets the active flag
IsDueIgnoringActive(row, nw) == row.next_check_at = None \/ row.next_check_at <= nw

\* lines 85-90: active IS TRUE AND (next_check_at IS NULL OR next_check_at <= now)
IsDue(row, nw) ==
    /\ row.active = TRUE
    /\ (row.next_check_at = None \/ row.next_check_at <= nw)

\* ORDER BY next_check_at ASC alone, where NULL sorts last
OrderedBeforeNullsLast(x, y) ==
    \/ x.next_check_at # None /\ y.next_check_at = None
    \/ x.next_check_at # None /\ y.next_check_at # None
       /\ x.next_check_at < y.next_check_at

\* ORDER BY next_check_at IS NULL DESC, next_check_at ASC: x strictly before y
OrderedBefore(x, y) ==
    \/ x.next_check_at = None /\ y.next_check_at # None
    \/ x.next_check_at # None /\ y.next_check_at # None
       /\ x.next_check_at < y.next_check_at

Min(a, b) == IF a <= b THEN a ELSE b

\* SubscriptionsRepo.fetch_due: every row list the query may return (rows that
\* compare equal under ORDER BY come in any order)
fetch_due(t, nw, limit) ==
    LET dueIds == {id \in DOMAIN t : IsDue(t[id], nw)}
        n == Min(limit, Cardinality(dueIds))
    IN { [k \in 1..n |-> t[q[k]]] :
           q \in { f \in [1..n -> dueIds] :
                     /\ \A a, b \in 1..n : a < b =>
                            f[a] # f[b] /\ ~OrderedBefore(t[f[b]], t[f[a]])
                     /\ \A x \in dueIds : (\A a \in 1..n : f[a] # x) =>
                            \A a \in 1..n : ~OrderedBefore(t[x], t[f[a]]) } }

\* a reschedule that backs off: the interval doubles with every check
bump_with_backoff(t, sub_id, nw) ==
    LET interval == t[sub_id].check_interval_minutes
    IN [t EXCEPT ![sub_id].last_checked_at = nw,
                 ![sub_id].next_check_at = nw + interval * 60,
                 ![sub_id].check_interval_minutes = interval * 2]

\* an UPDATE without its WHERE clause: every row is rescheduled
bump_every_row(t, sub_id, nw) ==
    [id \in DOMAIN t |-> [t[id] EXCEPT !.last_checked_at = nw,
                                       !.next_check_at = nw + t[id].check_interval_minutes * 60]]

\* the next check counted from the previous schedule, not from the clock
bump_from_schedule(t, sub_id, nw) ==
    LET interval == t[sub_id].check_interval_minutes
        base == IF t[sub_id].next_check_at = None THEN nw ELSE t[sub_id].next_check_at
    IN [t EXCEPT ![sub_id].last_checked_at = nw,
                 ![sub_id].next_check_at = base + interval * 60]

\* SubscriptionsRepo.bump_next_check (the row exists)
bump_next_check(t, sub_id, nw) ==
    LET interval == t[sub_id].check_interval_minutes
    IN [t EXCEPT ![sub_id].last_checked_at = nw,
                 ![sub_id].next_check_at = nw + interval * 60]

\* SubscriptionsRepo.set_active: UPDATE ... SET active WHERE id = sub_id
set_active(t, sub_id, active) ==
    IF sub_id \in DOMAIN t THEN [t EXCEPT ![sub_id].active = active] ELSE t

\* the serial primary key the flush of line 44 assigns
NextId(t) == IF DOMAIN t = {} THEN 1
             ELSE 1 + CHOOSE m \in DOMAIN t : \A id \in DOMAIN t : id <= m

\* a new row due only after its first interval
create_after_interval(t, user_id, origin, destination, range_from, range_to, direct, max_price, currency, check_interval_minutes, active, nw) ==
    [id \in DOMAIN t \cup {NextId(t)} |->
        IF id \in DOMAIN t THEN t[id]
        ELSE [id |-> id, user_id |-> user_id, origin |-> origin,
              destination |-> destination, range_from |-> range_from,
              range_to |-> range_to, direct |-> direct, max_price |-> max_price,
              currency |-> currency, active |-> active,
              check_interval_minutes |-> check_interval_minutes,
              last_checked_at |-> None,
              next_check_at |-> nw + check_interval_minutes * 60]]

\* SubscriptionsRepo.create, lines 15-45: the row is added with
\* next_check_at = datetime.now(UTC) and gets its id at the flush
create(t, user_id, origin, destination, range_from, range_to, direct, max_price, currency, check_interval_minutes, active, nw) ==
    [id \in DOMAIN t \cup {NextId(t)} |->
        IF id \in DOMAIN t THEN t[id]
        ELSE [id |-> id, user_id |-> user_id, origin |-> origin,
              destination |-> destination, range_from |-> range_from,
              range_to |-> range_to, direct |-> direct, max_price |-> max_price,
              currency |-> currency, active |-> active,
              check_interval_minutes |-> check_interval_minutes,
              last_checked_at |-> None, next_check_at |-> nw]]

\* a delete that matches no row
delete_nothing(t, sub_id, user_id) == t

\* a delete that looks at the id alone
delete_by_id(t, sub_id, user_id) ==
    [id \in DOMAIN t \ {sub_id} |-> t[id]]

\* SubscriptionsRepo.delete: DELETE ... WHERE id = sub_id AND user_id = user_id
delete(t, sub_id, user_id) ==
    [id \in {x \in DOMAIN t : ~(x = sub_id /\ t[x].user_id = user_id)} |-> t[id]]

\* row[0] of DELETE ... RETURNING id, or 0 when no row matched
delete_result(t, sub_id, user_id) ==
    IF sub_id \in DOMAIN t /\ t[sub_id].user_id = user_id THEN sub_id ELSE 0

\* SubscriptionsRepo.update_max_price: UPDATE ... SET max_price WHERE id =
\* sub_id AND user_id = user_id
update_max_price(t, sub_id, user_id, max_price) ==
    [id \in DOMAIN t |->
        IF id = sub_id /\ t[id].user_id = user_id
        THEN [t[id] EXCEPT !.max_price = max_price]
        ELSE t[id]]

\* `row is not None` of UPDATE ... RETURNING id
update_max_price_result(t, sub_id, user_id) ==
    sub_id \in DOMAIN t /\ t[sub_id].user_id = user_id

\* ------------------------------------------------- the pricing API's answers
Offer(price, departure_at) == [price |-> price, departure_at |-> departure_at]

\* a full month of the busy route: one 08:00 departure a day, all at price p
MonthAt(mon, p) ==
    [d \in 1..MaxDay |-> Offer(p, Date(mon[1], mon[2], d) * 100 + 8)]

BusyPrices == {1000, 990, 980}

\* what the thin route has on sale: on 3 December at 1000, at 990 and (in the
\* evening) at 980, above the ceiling, before and after the range, and two
\* malformed offers
ProbeOffers ==
    { Offer(1000, 2025120308), Offer(990, 2025120308), Offer(980, 2025120320),
      Offer(1010, 2025120308), Offer(980, 2025120208), Offer(980, 2026010208),
      Offer(None, 2025120308), Offer(980, None) }

SeqsUpTo(S, n) == UNION { [1..k -> S] : k \in 0..n }

\* what each route has on sale, whatever the month asked for: the busy route
\* MOW-IST, the thin route LED-AYT, the quiet route KZN-SVX
RouteOffers(origin, destination, departure_month) ==
    IF origin = "MOW"
    THEN { MonthAt(departure_month, p) : p \in BusyPrices }
    ELSE IF origin = "LED"
    THEN SeqsUpTo(ProbeOffers, MaxOffers)
    ELSE { <<>>, <<Offer(1000, 2025120408)>> }

\* the offer list keeps to the month of the request (malformed offers aside)
InMonth(offers, departure_month) ==
    \A k \in 1..Len(offers) :
        \/ offers[k].departure_at = None
        \/ strftime_Ym(isoparse_date(offers[k].departure_at)) = departure_month

\* data.get("data", []) of a 200 answer of fetch_prices_for_month.  In mode
\* "by_month" the API honours departure_at; in mode "any" it may answer with
\* departures of other months too.
\* In mode "poison" every answer for the thin route holds an offer whose
\* departure_at is a text dtparse.isoparse rejects (line 275, outside any try)
Unparsable(origin, mode) == mode = "poison" /\ origin = "LED"

\* In mode "steady" every request for a month gets the same answer: the busy
\* route at 990 in December and at 1000 in the other months.
ApiResponses(origin, destination, departure_month, mode) ==
    IF mode = "steady"
    THEN { MonthAt(departure_month, IF departure_month[2] = 12 THEN 990 ELSE 1000) }
    ELSE { offers \in RouteOffers(origin, destination, departure_month) :
             /\ mode = "any" \/ InMonth(offers, departure_month)
             /\ ~Unparsable(origin, mode) }

\* ------------------------------------------------------ process_subscription
\* a filter without the upper end of the date range
SurvivesOpenEnded(f, s) ==
    /\ ~(f.price = None \/ f.price > s.max_price)
    /\ f.departure_at # None
    /\ ~(isoparse_date(f.departure_at) < s.range_from)

\* a filter that takes a missing price for a price
SurvivesUnpriced(f, s) ==
    /\ ~(f.price > s.max_price)
    /\ f.departure_at # None
    /\ ~(isoparse_date(f.departure_at) < s.range_from
         \/ isoparse_date(f.departure_at) > s.range_to)

\* lines 268-289: does offer f survive the filter
Survives(f, s) ==
    /\ ~(f.price = None \/ f.price > s.max_price)
    /\ f.departure_at # None
    /\ ~(isoparse_date(f.departure_at) < s.range_from
         \/ isoparse_date(f.departure_at) > s.range_to)

\* lines 268-282: which `continue` of the filter offer f takes, if any
Dropped(f, s) ==
    IF f.price = None THEN "no_price"
    ELSE IF f.price > s.max_price THEN "price"
    ELSE IF f.departure_at = None THEN "no_departure"
    ELSE IF isoparse_date(f.departure_at) < s.range_from
            \/ isoparse_date(f.departure_at) > s.range_to THEN "date"
    ELSE "kept"

\* the ways the filter dropped offers of one answer
DropReasons(offers, s) == {Dropped(offers[k], s) : k \in 1..Len(offers)} \ {"kept"}

\* offers_by_date[date_str].append(f): the dict as a list of <<date_str, offers>>
\* in insertion order
DictAppend(obd, date_str, f) ==
    IF \E k \in 1..Len(obd) : obd[k][1] = date_str
    THEN [k \in 1..Len(obd) |->
            IF obd[k][1] = date_str THEN <<date_str, Append(obd[k][2], f)>>
            ELSE obd[k]]
    ELSE Append(obd, <<date_str, <<f>> >>)

\* groups keyed by the departure timestamp, hour included
RECURSIVE GroupByDeparture(_, _, _)
GroupByDeparture(offers, s, obd) ==
    IF offers = <<>> THEN obd
    ELSE LET f == Head(offers)
             slot == IF \E k \in 1..Len(obd) : obd[k][2][1].departure_at = f.departure_at
                     THEN [k \in 1..Len(obd) |->
                             IF obd[k][2][1].departure_at = f.departure_at
                             THEN <<obd[k][1], Append(obd[k][2], f)>>
                             ELSE obd[k]]
                     ELSE Append(obd, <<strftime_Ymd(isoparse_date(f.departure_at)), <<f>> >>)
         IN GroupByDeparture(Tail(offers), s, IF Survives(f, s) THEN slot ELSE obd)

RECURSIVE GroupByDate(_, _, _)
GroupByDate(offers, s, obd) ==
    IF offers = <<>> THEN obd
    ELSE LET f == Head(offers)
         IN GroupByDate(Tail(offers), s,
                IF Survives(f, s)
                THEN DictAppend(obd, strftime_Ymd(isoparse_date(f.departure_at)), f)
                ELSE obd)

\* the date's first offer, whatever it costs
first_offer(date_offers) == date_offers[1]

\* min(date_offers, key=price): the first offer of minimal price
min_offer(date_offers) ==
    date_offers[CHOOSE k \in 1..Len(date_offers) :
                   /\ \A n \in 1..Len(date_offers) :
                          date_offers[k].price <= date_offers[n].price
                   /\ \A n \in 1..(k - 1) :
                          date_offers[n].price > date_offers[k].price]

\* a lookup under a key nothing was ever stored under
rds_get_miss(r, key) == None

\* rds.get(key)
rds_get(r, key) == IF key \in DOMAIN r THEN r[key].value ELSE None

\* a write that never reaches the cache
rds_set_lost(r, key, value) == r

\* SET ... NX: an existing key keeps its value
rds_setnx(r, key, value) ==
    IF key \in DOMAIN r THEN r
    ELSE [k \in DOMAIN r \cup {key} |-> IF k = key THEN [value |-> value, ttl |-> NoTTL]
                                        ELSE r[k]]

\* rds.set(key, value): the key loses any expiry it had
rds_set(r, key, value) ==
    [k \in DOMAIN r \cup {key} |->
        IF k = key THEN [value |-> value, ttl |-> NoTTL] ELSE r[k]]

\* rds.expire(key, seconds)
rds_expire(r, key, seconds) ==
    IF key \in DOMAIN r THEN [r EXCEPT ![key].ttl = seconds] ELSE r

\* a drop of any size counts
AnyDrop(new_price, old_price) == new_price < old_price

\* lines 316-321: new_price < old_price and (savings / old_price) * 100 >= 2.0
SignificantDrop(new_price, old_price) ==
    /\ new_price < old_price
    /\ (old_price - new_price) * 100 >= 2 * old_price

\* a date without a stored floor is not news
NotifyOnlyAgainstFloor(stored_min, new_price) ==
    IF stored_min = None THEN FALSE
    ELSE new_price < float_str(stored_min)
         /\ (float_str(stored_min) - new_price) * 100 >= 2 * float_str(stored_min)

\* every evaluated date is news
notify_always(stored_min, new_price) == TRUE

\* lines 307-335
should_notify(stored_min, new_price) ==
    IF stored_min = None THEN TRUE
    ELSE SignificantDrop(new_price, float_str(stored_min))

\* lines 349-362: the fields of a queued notification the pass goes on to use
Notification(offer, new_price, old_price, tracking_key) ==
    [offer |-> offer, new_price |-> new_price, old_price |-> old_price,
     tracking_key |-> tracking_key, dep |-> offer.departure_at]

\* a slice that runs one candidate into the next batch
BatchOverlapping(nts, off) == SubSeq(nts, off + 1, Min(off + batch_size + 1, Len(nts)))

\* batch = notifications_to_send[i:i + batch_size]
Batch(nts, off) == SubSeq(nts, off + 1, Min(off + batch_size, Len(nts)))


\* ------------------------------------------------------------------- state
VARIABLES
    table,                  \* flight_subscriptions: id -> row
    rds,                    \* Redis price-floor keys: key -> [value, ttl]
    now,                    \* datetime.now(UTC), seconds
    today,                  \* date.today()
    pc,                     \* where loop_worker / process_subscription stands
    cycle,                  \* polling cycles begun
    due,                    \* rows of fetch_due not yet taken by the for loop
    sub,                    \* the row object being processed
    months,                 \* months the for loop has still to visit
    offers_by_date,         \* items of the month's dict still to visit
    notifications_to_send,
    i,                      \* offset of the current batch
    j,                      \* records of the current batch already written
    total_sent,
    faults,                 \* Redis calls that have raised
    api_mode,               \* "by_month" | "any": how the pricing API answers
    \* history of the pass in progress (what the log lines record)
    rds0,                   \* Redis as the pass found it
    fetch_log,              \* <<month, "ok" | "failed", ways offers were
                            \* dropped, answer kept to the month>> per fetch
    seen,                   \* date_str of every offer that survived the filter
    suppressed,             \* tracking keys whose decision was "do not notify"
    evaluated,              \* tracking keys whose record was read
    sends,                  \* per send_message of offers: the batch, whether it
                            \* was delivered, how many of its floors were stored
    \* history of the run
    expiry_notices,         \* id -> expiry notices handed to send_message
    expiry_delivered,       \* id -> expiry notices send_message delivered
    removed,                \* ids the worker deleted
    notified,               \* key -> the price last delivered and stored by an
                            \* earlier pass of this run
    dialog_state,           \* the window of the new-watch dialog on screen
    dialog_data,            \* manager.dialog_data of that dialog
    call                    \* the last direct call of a repository method or
                            \* of a pure function

vars == <<table, rds, now, today, pc, cycle, due, sub, months, offers_by_date,
          notifications_to_send, i, j, total_sent, faults, rds0, fetch_log, seen,
          suppressed, evaluated, sends, expiry_notices, expiry_delivered, removed,
          api_mode, call, notified, dialog_state, dialog_data>>

pass_locals == <<months, offers_by_date, notifications_to_send, i, j, total_sent>>
pass_hist == <<rds0, fetch_log, seen, suppressed, evaluated, sends>>
run_hist == <<expiry_notices, expiry_delivered, removed, notified>>
dialog == <<dialog_state, dialog_data>>
env == <<now, today, api_mode, call, dialog>>

\* a key dialog_data does not hold
NoKey == <<>>

\* dialog_data of a dialog just started
NoData == [origin |-> "", destination |-> "", date_from |-> NoKey, date_to |-> NoKey,
           currency |-> "", max_price |-> None, direct |-> FALSE]

\* no repository method has been called directly
NoCall == [op |-> "none", id |-> None, at |-> None, before |-> <<>>]

\* ------------------------------------------------------------ initial state
\* the clock when the worker starts
StartTime == 3600

\* the busy route watched over three months across the new year
BusyRow == Row(1, 101, "MOW", "IST", 20251102, Date(2026, 1, MaxDay), 15, StartTime - 60)

\* the thin route watched from 3 December to 1 January, never checked yet
ThinRow == Row(2, 102, "LED", "AYT", 20251203, 20260101, 5, None)

\* the quiet route watched for 4 December alone
QuietRow == Row(3, 103, "KZN", "SVX", 20251204, 20251204, 10, StartTime - 60)

SubIds == {1, 2, 3}

\* the days on which the worker is observed
Days == {20251102, 20260102}

\* price-floor records earlier runs of the worker left behind
Record(price) == [value |-> str_float(price), ttl |-> TTL90]

KeyOf(s, d) == price_tracking_key(s.id, s.origin, s.destination, strftime_Ymd(d), s.direct)

NoRecords == [k \in {} |-> Record(0)]

\* the store and the cache the worker starts on: the busy watch alone, or the
\* thin and the quiet watch together; no floor yet, or floors of 1000
InitStores ==
    { <<[id \in {1} |-> BusyRow], NoRecords>>,
      <<[id \in {1} |-> BusyRow],
        [k \in {KeyOf(BusyRow, Date(2025, 12, d)) : d \in 2..MaxDay} |-> Record(1000)]>>,
      <<[id \in {2, 3} |-> IF id = 2 THEN ThinRow ELSE QuietRow], NoRecords>>,
      <<[id \in {2, 3} |-> IF id = 2 THEN ThinRow ELSE QuietRow],
        [k \in {KeyOf(ThinRow, 20251203)} |-> Record(1000)]>> }

\* the prices a pass delivered and stored, added to those of earlier passes
RECURSIVE Delivered(_, _)
Delivered(ss, acc) ==
    IF ss = <<>> THEN acc
    ELSE LET done == SubSeq(Head(ss).batch, 1, Head(ss).recorded)
             keys == {done[n].tracking_key : n \in 1..Len(done)}
             last(key) == done[CHOOSE n \in 1..Len(done) :
                                 /\ done[n].tracking_key = key
                                 /\ \A n2 \in (n + 1)..Len(done) :
                                        done[n2].tracking_key # key].new_price
         IN Delivered(Tail(ss),
                      [key \in DOMAIN acc \cup keys |->
                          IF key \in keys THEN last(key) ELSE acc[key]])

\* the pass is over: its locals are dropped, what it delivered is remembered
ClearLocals ==
    /\ notified' = Delivered(sends, notified)
    /\ sub' = NoSub
    /\ months' = <<>>
    /\ offers_by_date' = <<>>
    /\ notifications_to_send' = <<>>
    /\ i' = 0
    /\ j' = 0
    /\ total_sent' = 0
    /\ rds0' = rds
    /\ fetch_log' = <<>>
    /\ seen' = {}
    /\ suppressed' = {}
    /\ evaluated' = {}
    /\ sends' = <<>>

\* nothing in flight: no due list, no watch in hand, no history
NothingInFlight ==
    /\ dialog_state = "closed"
    /\ dialog_data = NoData
    /\ cycle = 0
    /\ due = <<>>
    /\ sub = NoSub
    /\ months = <<>>
    /\ offers_by_date = <<>>
    /\ notifications_to_send = <<>>
    /\ i = 0
    /\ j = 0
    /\ total_sent = 0
    /\ faults = 0
    /\ rds0 = rds
    /\ fetch_log = <<>>
    /\ seen = {}
    /\ suppressed = {}
    /\ evaluated = {}
    /\ sends = <<>>
    /\ expiry_notices = [id \in SubIds |-> 0]
    /\ expiry_delivered = [id \in SubIds |-> 0]
    /\ removed = {}
    /\ notified = <<>>

IdleButCall ==
    /\ now = StartTime
    /\ today = 20251102
    /\ NothingInFlight

Idle == IdleButCall /\ call = NoCall

InitWith(mode) ==
    /\ \E st \in InitStores : table = st[1] /\ rds = st[2]
    /\ api_mode = mode
    /\ pc = "poll"
    /\ Idle

Init == InitWith("by_month")


\* ------------------------------------------------------------- loop_worker
\* lines 517-526: fetch_due; an empty list sleeps five minutes and polls again
StartCycle ==
    /\ pc = "poll"
    /\ cycle < MaxCycles
    /\ cycle' = cycle + 1
    /\ \E q \in fetch_due(table, now, FetchLimit) :
          /\ due' = q
          /\ IF q = <<>>
             THEN /\ now' = now + SleepSeconds
                  /\ pc' = "poll"
             ELSE /\ now' = now
                  /\ pc' = "loop"
    /\ UNCHANGED <<table, rds, today, api_mode, dialog, call, sub, faults, pass_locals, pass_hist,
                   run_hist>>

\* lines 517-519, 534: the session or the fetch_due query raises
FetchDueFails ==
    /\ pc = "poll"
    /\ cycle < MaxCycles
    /\ faults < MaxCacheFaults
    /\ cycle' = cycle + 1
    /\ faults' = faults + 1
    /\ pc' = "raised"
    /\ UNCHANGED <<table, rds, env, due, sub, pass_locals, pass_hist, run_hist>>

\* lines 529-532 and 206-246: the for loop takes the next row, opens its
\* transaction and process_subscription looks at the date range
StartPass ==
    /\ pc = "loop"
    /\ due # <<>>
    /\ sub' = Head(due)
    /\ due' = Tail(due)
    /\ IF Head(due).range_to < today
       THEN /\ pc' = "expired"
            /\ months' = <<>>
       ELSE /\ pc' = "months"
            /\ months' = month_span(Head(due).range_from, Head(due).range_to)
    /\ offers_by_date' = <<>>
    /\ notifications_to_send' = <<>>
    /\ i' = 0
    /\ j' = 0
    /\ total_sent' = 0
    /\ rds0' = rds
    /\ fetch_log' = <<>>
    /\ seen' = {}
    /\ suppressed' = {}
    /\ evaluated' = {}
    /\ sends' = <<>>
    /\ UNCHANGED <<table, rds, env, cycle, faults, run_hist>>

\* lines 231-237: the expiry notice is sent
ExpiryNotice ==
    /\ pc = "expired"
    /\ expiry_notices' = [expiry_notices EXCEPT ![sub.id] = @ + 1]
    /\ expiry_delivered' = [expiry_delivered EXCEPT ![sub.id] = @ + 1]
    /\ pc' = "expired_delete"
    /\ UNCHANGED <<table, rds, env, cycle, due, sub, faults, pass_locals,
                   pass_hist, removed, notified>>

\* lines 231-239: send_message raises; the failure is logged and ignored
ExpiryNoticeFails ==
    /\ pc = "expired"
    /\ expiry_notices' = [expiry_notices EXCEPT ![sub.id] = @ + 1]
    /\ pc' = "expired_delete"
    /\ UNCHANGED <<table, rds, env, cycle, due, sub, faults, pass_locals,
                   pass_hist, expiry_delivered, removed, notified>>

\* lines 242-244: delete the row and return; the transaction commits
ExpiryDelete ==
    /\ pc = "expired_delete"
    /\ table' = delete(table, sub.id, sub.user_id)
    /\ removed' = IF sub.id \in DOMAIN table THEN removed \cup {sub.id} ELSE removed
    /\ pc' = "returned"
    /\ UNCHANGED <<rds, env, cycle, due, sub, faults, pass_locals, pass_hist,
                   expiry_notices, expiry_delivered, notified>>

\* `break`: a failed month ends the search
AbortMonths(ms) == <<>>

\* lines 260-262: `continue`: the months the loop still visits after a failure
AfterFetchFailure(ms) == Tail(ms)

\* lines 252-262: the month's request fails; logged, next month
FetchMonthFails ==
    /\ pc = "months"
    /\ months # <<>>
    /\ fetch_log' = Append(fetch_log, <<Head(months), "failed", {}, TRUE>>)
    /\ months' = AfterFetchFailure(months)
    /\ UNCHANGED <<table, rds, env, pc, cycle, due, sub, faults, offers_by_date,
                   notifications_to_send, i, j, total_sent, rds0, seen, suppressed,
                   evaluated, sends, run_hist>>

\* lines 252-291: the month's request answers; its offers are filtered and
\* grouped by departure date
FetchMonth ==
    /\ pc = "months"
    /\ months # <<>>
    /\ \E offers \in ApiResponses(sub.origin, sub.destination, Head(months), api_mode) :
          LET obd == GroupByDate(offers, sub, <<>>)
          IN /\ offers_by_date' = obd
             /\ seen' = seen \cup {obd[k][1] : k \in 1..Len(obd)}
             /\ pc' = IF obd = <<>> THEN "months" ELSE "dates"
             /\ fetch_log' = Append(fetch_log,
                                    <<Head(months), "ok", DropReasons(offers, sub),
                                      InMonth(offers, Head(months))>>)
    /\ months' = Tail(months)
    /\ UNCHANGED <<table, rds, env, cycle, due, sub, faults,
                   notifications_to_send, i, j, total_sent, rds0, suppressed,
                   evaluated, sends, run_hist>>

\* lines 294-375: one date of the month: its cheapest offer against the stored
\* floor, queued when it is news; ten queued notifications end the search
EvaluateDate ==
    /\ pc = "dates"
    /\ offers_by_date # <<>>
    /\ LET date_str == Head(offers_by_date)[1]
           cheapest == min_offer(Head(offers_by_date)[2])
           new_price == cheapest.price
           tracking_key == price_tracking_key(sub.id, sub.origin, sub.destination,
                                              date_str, sub.direct)
           stored_min == rds_get(rds, tracking_key)
           old_price == IF stored_min = None THEN None ELSE float_str(stored_min)
           nts == IF should_notify(stored_min, new_price)
                  THEN Append(notifications_to_send,
                              Notification(cheapest, new_price, old_price, tracking_key))
                  ELSE notifications_to_send
       IN /\ notifications_to_send' = nts
          /\ evaluated' = evaluated \cup {tracking_key}
          /\ suppressed' = IF should_notify(stored_min, new_price) THEN suppressed
                           ELSE suppressed \cup {tracking_key}
          /\ offers_by_date' = Tail(offers_by_date)
          /\ pc' = IF Len(nts) >= NotifyCap THEN "batches"
                   ELSE IF Tail(offers_by_date) = <<>> THEN "months"
                   ELSE "dates"
    /\ UNCHANGED <<table, rds, env, cycle, due, sub, faults, months, i, j,
                   total_sent, rds0, fetch_log, seen, sends, run_hist>>

\* a pass with nothing to send returns without advancing the schedule
AfterFlushReturnEarly(nts) == IF nts = <<>> THEN "returned" ELSE "batches"

\* lines 378, 470-474: with nothing queued the pass goes straight to the
\* schedule advance
AfterFlush(nts) == IF nts = <<>> THEN "bump" ELSE "batches"

\* lines 378, 470: every month visited; send what was queued, if anything
Flush ==
    /\ pc = "months"
    /\ months = <<>>
    /\ pc' = AfterFlush(notifications_to_send)
    /\ UNCHANGED <<table, rds, env, cycle, due, sub, faults, pass_locals,
                   pass_hist, run_hist>>

\* the schedule is advanced as soon as one batch was handled
AfterFirstBatch == "bump"

\* where the batch loop goes after the batch at offset i
AfterBatch == IF i + batch_size < Len(notifications_to_send) THEN "batches" ELSE "bump"

\* lines 383-457: one message for up to five notifications is sent
SendBatch ==
    /\ pc = "batches"
    /\ sends' = Append(sends, [batch |-> Batch(notifications_to_send, i), ok |-> TRUE,
                                recorded |-> 0])
    /\ total_sent' = total_sent + 1
    /\ j' = 0
    /\ pc' = "update"
    /\ UNCHANGED <<table, rds, env, cycle, due, sub, faults, months,
                   offers_by_date, notifications_to_send, i, rds0, fetch_log, seen,
                   suppressed, evaluated, run_hist>>

\* the batch loop gives up at the first failed send
GiveUpSending == "bump"

\* lines 465-466: the except clause logs and the batch loop goes on
AfterFailedSend == AfterBatch

\* lines 447-448, 465-466: send_message raises; logged, next batch
SendBatchFails ==
    /\ pc = "batches"
    /\ sends' = Append(sends, [batch |-> Batch(notifications_to_send, i), ok |-> FALSE,
                                recorded |-> 0])
    /\ i' = i + batch_size
    /\ pc' = AfterFailedSend
    /\ UNCHANGED <<table, rds, env, cycle, due, sub, faults, months,
                   offers_by_date, notifications_to_send, j, total_sent, rds0,
                   fetch_log, seen, suppressed, evaluated, run_hist>>

\* after the record of the batch's notification j + 1
AfterRecord ==
    /\ j' = IF j + 1 < Len(Batch(notifications_to_send, i)) THEN j + 1 ELSE 0
    /\ i' = IF j + 1 < Len(Batch(notifications_to_send, i)) THEN i ELSE i + batch_size
    /\ pc' = IF j + 1 < Len(Batch(notifications_to_send, i)) THEN "update"
             ELSE AfterBatch

\* the candidate five places on, a member of the batch still to be sent
NotifOfNextBatch(nts, off, k) == nts[Min(off + batch_size + k + 1, Len(nts))]

\* line 460: for notif in batch
NotifOfBatch(nts, off, k) == Batch(nts, off)[k + 1]

\* lines 460-463: the price floor of one sent notification is stored for 90 days
UpdateRecord ==
    /\ pc = "update"
    /\ LET notif == NotifOfBatch(notifications_to_send, i, j)
       IN rds' = rds_expire(rds_set(rds, notif.tracking_key, str_float(notif.new_price)),
                            notif.tracking_key, TTL90)
    /\ sends' = [sends EXCEPT ![Len(sends)].recorded = @ + 1]
    /\ AfterRecord
    /\ UNCHANGED <<table, env, cycle, due, sub, faults, months, offers_by_date,
                   notifications_to_send, total_sent, rds0, fetch_log, seen,
                   suppressed, evaluated, run_hist>>

\* line 461 raises (Redis): the except of line 465 logs it; the rest of the
\* batch is left unrecorded and the next batch follows
UpdateRecordSetFails ==
    /\ pc = "update"
    /\ faults < MaxCacheFaults
    /\ faults' = faults + 1
    /\ j' = 0
    /\ i' = i + batch_size
    /\ pc' = AfterBatch
    /\ UNCHANGED <<table, rds, env, cycle, due, sub, months, offers_by_date,
                   notifications_to_send, total_sent, pass_hist, run_hist>>

\* line 463 raises (Redis) after line 461 stored the price: as above
UpdateRecordExpireFails ==
    /\ pc = "update"
    /\ faults < MaxCacheFaults
    /\ faults' = faults + 1
    /\ LET notif == NotifOfBatch(notifications_to_send, i, j)
       IN rds' = rds_set(rds, notif.tracking_key, str_float(notif.new_price))
    /\ j' = 0
    /\ i' = i + batch_size
    /\ pc' = AfterBatch
    /\ UNCHANGED <<table, env, cycle, due, sub, months, offers_by_date,
                   notifications_to_send, total_sent, pass_hist, run_hist>>

\* the schedule advanced on the way out, as in a `finally`
CacheReadFailsThenBump ==
    /\ \/ pc = "expired"
       \/ pc = "dates"
       \/ pc = "batches"
    /\ faults < MaxCacheFaults
    /\ faults' = faults + 1
    /\ pc' = "raised"
    /\ table' = bump_next_check(table, sub.id, now)
    /\ UNCHANGED <<rds, env, cycle, due, sub, pass_locals, pass_hist, run_hist>>

\* a Redis read outside any try raises: the name lookups of lines 215-216 and
\* 396-398, the floor lookup of line 305; process_subscription is left
CacheReadFails ==
    /\ \/ pc = "expired"
       \/ pc = "dates"
       \/ pc = "batches"
    /\ faults < MaxCacheFaults
    /\ faults' = faults + 1
    /\ pc' = "raised"
    /\ UNCHANGED <<table, rds, env, cycle, due, sub, pass_locals, pass_hist,
                   run_hist>>

\* the exception leaves the while loop and the worker stops
ExceptionEscapes == "stopped"

\* lines 534-539: except Exception logs; control falls through to the sleep
OnCycleException == "loop"

\* lines 534-535: the exception leaves the transaction (rolled back) and the
\* for loop; it is logged and the cycle ends
CycleFailure ==
    /\ pc = "raised"
    /\ due' = <<>>
    /\ pc' = OnCycleException
    /\ ClearLocals
    /\ UNCHANGED <<table, rds, env, cycle, faults, expiry_notices, expiry_delivered,
                   removed>>

\* lines 473-475: the schedule is advanced; process_subscription returns
Bump ==
    /\ pc = "bump"
    /\ sub.id \in DOMAIN table
    /\ table' = bump_next_check(table, sub.id, now)
    /\ pc' = "returned"
    /\ UNCHANGED <<rds, env, cycle, due, sub, faults, pass_locals, pass_hist,
                   run_hist>>

\* lines 529-532: the transaction commits and the for loop goes on
NextDue ==
    /\ pc = "returned"
    /\ pc' = "loop"
    /\ ClearLocals
    /\ UNCHANGED <<table, rds, env, cycle, due, faults, expiry_notices,
                   expiry_delivered, removed>>

\* lines 537-539: the list is done; five minutes' sleep, then the next poll
Sleep ==
    /\ pc = "loop"
    /\ due = <<>>
    /\ now' = now + SleepSeconds
    /\ pc' = "poll"
    /\ UNCHANGED <<table, rds, today, api_mode, dialog, call, cycle, due, sub, faults,
                   pass_locals,
                   pass_hist, run_hist>>

\* the calendar moves on while the worker sleeps
DayPasses ==
    /\ pc = "poll"
    /\ \E d \in Days : d > today /\ today' = d
    /\ UNCHANGED <<table, rds, now, api_mode, dialog, call, pc, cycle, due, sub, faults,
                   pass_locals,
                   pass_hist, run_hist>>

Next ==
    \/ StartCycle
    \/ FetchDueFails
    \/ StartPass
    \/ ExpiryNotice
    \/ ExpiryNoticeFails
    \/ ExpiryDelete
    \/ FetchMonthFails
    \/ FetchMonth
    \/ EvaluateDate
    \/ Flush
    \/ SendBatch
    \/ SendBatchFails
    \/ UpdateRecord
    \/ UpdateRecordSetFails
    \/ UpdateRecordExpireFails
    \/ CacheReadFails
    \/ CycleFailure
    \/ Bump
    \/ NextDue
    \/ Sleep
    \/ DayPasses

Spec == Init /\ [][Next]_vars

\* the worker's coroutine is the only task of its event loop: a step of the
\* loop that can be taken is taken
FairSpec ==
    /\ Init /\ [][Next]_vars
    /\ WF_vars(CycleFailure) /\ WF_vars(Sleep) /\ WF_vars(StartCycle \/ FetchDueFails)

\* the same worker against a pricing API that does not keep to the month asked
SpecAnyApi == InitWith("any") /\ [][Next]_vars

\* The places of a pass where the task is suspended on an await: the Redis
\* and Telegram calls of the expiry branch, the month request, rds.get,
\* send_message, rds.set / rds.expire and bump_next_check.
AwaitsInPass ==
    {"expired", "expired_delete", "months", "dates", "batches", "update", "bump"}

\* lines 509-549 under asyncio.run (548): loop_worker installs no signal
\* handler and shields nothing.  An interrupt reaches the task as
\* CancelledError or KeyboardInterrupt at the await it is suspended on; no
\* `except Exception` clause catches either, the open transaction is rolled
\* back by `async with s.begin()`, the `finally` of lines 540-545 closes the
\* connections and the process ends.  A termination signal ends the process
\* at once.  Either way the store and the cache are left as they stand.
Shutdown ==
    /\ pc \in AwaitsInPass \cup {"poll"}
    /\ pc' = "exited"
    /\ UNCHANGED <<table, rds, env, cycle, due, sub, faults, pass_locals, pass_hist,
                   run_hist>>

NextSignals ==
    \/ Next
    \/ Shutdown

\* the worker with process signals delivered at any await
SpecSignals == Init /\ [][NextSignals]_vars

\* ------------------------------------------- passes against a steady API
\* The busy watch checked every five minutes, the API answering every request
\* for a month alike, every delivery and every cache call succeeding.
SteadyRow == [BusyRow EXCEPT !.check_interval_minutes = 5]

\* no floor yet, floors of 1000 for December, or floors of 1000 for November
SteadyStores ==
    { NoRecords,
      [k \in {KeyOf(SteadyRow, Date(2025, 12, d)) : d \in 2..MaxDay} |-> Record(1000)],
      [k \in {KeyOf(SteadyRow, Date(2025, 11, d)) : d \in 2..MaxDay} |-> Record(1000)] }

InitSteady ==
    /\ table = [id \in {1} |-> SteadyRow]
    /\ rds \in SteadyStores
    /\ api_mode = "steady"
    /\ pc = "poll"
    /\ Idle

NextSteady ==
    \/ StartCycle
    \/ StartPass
    \/ FetchMonth
    \/ EvaluateDate
    \/ Flush
    \/ SendBatch
    \/ UpdateRecord
    \/ Bump
    \/ NextDue
    \/ Sleep

\* the loop is the only task of its event loop: it goes on while it can
SpecSteady == InitSteady /\ [][NextSteady]_vars /\ WF_vars(NextSteady)

\* ------------------------------------------ the worker after the ranges ended
\* The thin and the quiet watch, both past their range when the worker starts;
\* between polls another session may switch a watch off through
\* SubscriptionsRepo.set_active.
InitExpiry ==
    /\ table = [id \in {2, 3} |-> IF id = 2 THEN ThinRow ELSE QuietRow]
    /\ rds \in {NoRecords, [k \in {KeyOf(ThinRow, 20251203)} |-> Record(1000)]}
    /\ api_mode = "by_month"
    /\ pc = "poll"
    /\ now = StartTime
    /\ today = 20260102
    /\ NothingInFlight
    /\ call = NoCall

\* repo_subscriptions.py 56-62, committed while the worker sleeps
SetInactive ==
    /\ pc = "poll"
    /\ \E id \in DOMAIN table :
          /\ table[id].active
          /\ table' = set_active(table, id, FALSE)
    /\ UNCHANGED <<rds, env, pc, cycle, due, sub, faults, pass_locals, pass_hist,
                   run_hist>>

\* the steps the worker can take when every watch it finds is past its range
ExpiryWorkerStep ==
    \/ StartCycle
    \/ FetchDueFails
    \/ StartPass
    \/ ExpiryNotice
    \/ ExpiryNoticeFails
    \/ ExpiryDelete
    \/ CacheReadFails
    \/ CycleFailure
    \/ NextDue
    \/ Sleep

NextExpiry ==
    \/ ExpiryWorkerStep
    \/ SetInactive

\* the loop is the only task of its event loop: it goes on while it can
SpecExpiry == InitExpiry /\ [][NextExpiry]_vars /\ WF_vars(ExpiryWorkerStep)

\* ------------------------------------------------- the new-watch dialog
\* dialogs/new_sub.py: the windows in the order of the Dialog (lines 362-371),
\* which is the order manager.next() and Back follow
Windows ==
    <<"text_input", "origin", "destination", "depart_cal", "return_cal", "currency",
      "budget", "confirm">>

WindowIndex(w) == CHOOSE k \in 1..Len(Windows) : Windows[k] = w

\* the days the calendars and the parser's answers offer
DialogDays == {20251203, 20251210, 20260105}

\* selected_date.isoformat(): the text "YYYY-MM-DD" as its three zero-padded
\* fields
isoformat(d) == <<Year(d), Month(d), Day(d)>>

\* a text that date.fromisoformat rejects
Garbled == <<0, 0, 0>>

\* date.fromisoformat(text)
fromisoformat(text) == Date(text[1], text[2], text[3])

\* text1 < text2 on str: character by character, which for zero-padded fields
\* of equal width is field by field
str_less(a, b) ==
    \/ a[1] < b[1]
    \/ a[1] = b[1] /\ a[2] < b[2]
    \/ a[1] = b[1] /\ a[2] = b[2] /\ a[3] < b[3]

\* gpt_parser.py 125-134: a dict with the four required fields; nothing looks
\* at what the dates say or how they compare
ParserAnswers ==
    [departure : {"mow"}, destination : {"ist"},
     range_from : {isoformat(d) : d \in DialogDays} \cup {Garbled},
     range_to : {isoformat(d) : d \in DialogDays}]

\* str.upper() on the codes used here
upper(text) == IF text = "mow" THEN "MOW" ELSE IF text = "ist" THEN "IST" ELSE text

\* main.py 100-109: the button starts a fresh dialog
StartDialog ==
    /\ pc = "dialog"
    /\ dialog_state = "closed"
    /\ Cardinality(DOMAIN table) < MaxSubs
    /\ dialog_state' = "text_input"
    /\ dialog_data' = NoData
    /\ UNCHANGED <<table, rds, now, today, api_mode, call, pc, cycle, due, sub, faults,
                   pass_locals, pass_hist, run_hist>>

\* the rest of the state when only the dialog moves
DialogOnly ==
    UNCHANGED <<table, rds, now, today, api_mode, call, pc, cycle, due, sub, faults,
                pass_locals, pass_hist, run_hist>>

\* lines 30-95: the parser's answer fills dialog_data and the dialog jumps to
\* the confirmation
process_text_input ==
    /\ dialog_state = "text_input"
    /\ \E parsed \in ParserAnswers :
          dialog_data' = [dialog_data EXCEPT !.origin = upper(parsed.departure),
                                             !.destination = upper(parsed.destination),
                                             !.date_from = parsed.range_from,
                                             !.date_to = parsed.range_to,
                                             !.currency = "RUB",
                                             !.max_price = None,
                                             !.direct = FALSE]
    /\ dialog_state' = "confirm"
    /\ DialogOnly

\* lines 98-107
on_manual_fill ==
    /\ dialog_state = "text_input"
    /\ dialog_state' = "origin"
    /\ UNCHANGED dialog_data
    /\ DialogOnly

\* lines 121-128
set_origin ==
    /\ dialog_state = "origin"
    /\ dialog_data' = [dialog_data EXCEPT !.origin = upper("mow")]
    /\ dialog_state' = "destination"
    /\ DialogOnly

\* lines 131-138
set_destination ==
    /\ dialog_state = "destination"
    /\ dialog_data' = [dialog_data EXCEPT !.destination = upper("ist")]
    /\ dialog_state' = "depart_cal"
    /\ DialogOnly

\* lines 141-145
on_depart_selected ==
    /\ dialog_state = "depart_cal"
    /\ \E selected_date \in DialogDays :
          dialog_data' = [dialog_data EXCEPT !.date_from = isoformat(selected_date)]
    /\ dialog_state' = "return_cal"
    /\ DialogOnly

\* lines 148-156: date_to is stored first; a date before date_from is refused
\* and the window stays
on_return_selected ==
    /\ dialog_state = "return_cal"
    /\ \E selected_date \in DialogDays :
          /\ dialog_data' = [dialog_data EXCEPT !.date_to = isoformat(selected_date)]
          /\ dialog_state' = IF str_less(isoformat(selected_date), dialog_data.date_from)
                             THEN "return_cal"
                             ELSE "currency"
    /\ DialogOnly

\* lines 158-177
choose_currency ==
    /\ dialog_state = "currency"
    /\ \E cur \in {"RUB", "EUR"} :
          dialog_data' = [dialog_data EXCEPT !.currency = cur]
    /\ dialog_state' = "budget"
    /\ DialogOnly

\* lines 179-192: skip_budget or set_budget
set_budget ==
    /\ dialog_state = "budget"
    /\ \E value \in {None, 1000} :
          dialog_data' = [dialog_data EXCEPT !.max_price = value]
    /\ dialog_state' = "confirm"
    /\ DialogOnly

\* the Back button of every window but the first two
GoBack ==
    /\ dialog_state \in {"destination", "depart_cal", "return_cal", "currency",
                          "budget", "confirm"}
    /\ dialog_state' = Windows[WindowIndex(dialog_state) - 1]
    /\ UNCHANGED dialog_data
    /\ DialogOnly

\* lines 110-118
on_cancel_dialog ==
    /\ dialog_state \notin {"closed"}
    /\ dialog_state' = "closed"
    /\ UNCHANGED dialog_data
    /\ DialogOnly

\* lines 196-226: with the five keys present the watch is created from what
\* dialog_data holds (a text that is no date raises before anything is
\* stored) and the dialog is done
on_save ==
    /\ dialog_state = "confirm"
    /\ dialog_data.origin # ""
    /\ dialog_data.destination # ""
    /\ dialog_data.date_from # NoKey
    /\ dialog_data.date_to # NoKey
    /\ dialog_data.currency # ""
    /\ dialog_data.date_from # Garbled
    /\ table' = create(table, 101, upper(dialog_data.origin),
                       upper(dialog_data.destination),
                       fromisoformat(dialog_data.date_from),
                       fromisoformat(dialog_data.date_to),
                       dialog_data.direct,
                       IF dialog_data.max_price = None THEN 999999999
                       ELSE dialog_data.max_price,
                       upper(dialog_data.currency), 5, TRUE, now)
    /\ dialog_state' = "closed"
    /\ UNCHANGED <<dialog_data, rds, now, today, api_mode, call, pc, cycle, due, sub,
                   faults, pass_locals, pass_hist, run_hist>>

InitDialog ==
    /\ table = <<>>
    /\ rds = NoRecords
    /\ api_mode = "by_month"
    /\ pc = "dialog"
    /\ Idle

NextDialog ==
    \/ StartDialog
    \/ process_text_input
    \/ on_manual_fill
    \/ set_origin
    \/ set_destination
    \/ on_depart_selected
    \/ on_return_selected
    \/ choose_currency
    \/ set_budget
    \/ GoBack
    \/ on_cancel_dialog
    \/ on_save

SpecDialog == InitDialog /\ [][NextDialog]_vars

\* --------------------------------------- a watch whose pass always raises
\* lines 252-275: the month's answer arrives and dtparse.isoparse raises
\* ValueError on one of its offers; process_subscription is left
FetchMonthUnparsable ==
    /\ pc = "months"
    /\ months # <<>>
    /\ Unparsable(sub.origin, api_mode)
    /\ pc' = "raised"
    /\ UNCHANGED <<table, rds, env, cycle, due, sub, faults, pass_locals, pass_hist,
                   run_hist>>

\* the thin watch, whose route is poisoned, never checked (first in the
\* order of fetch_due) or overdue by less than the quiet watch (second)
InitPoison ==
    /\ \E nca \in {None, StartTime - 30} :
          table = [id \in {2, 3} |->
                      IF id = 2 THEN [ThinRow EXCEPT !.next_check_at = nca]
                      ELSE QuietRow]
    /\ rds = NoRecords
    /\ api_mode = "poison"
    /\ pc = "poll"
    /\ Idle

NextPoison ==
    \/ StartCycle
    \/ StartPass
    \/ FetchMonthUnparsable
    \/ FetchMonthFails
    \/ FetchMonth
    \/ EvaluateDate
    \/ Flush
    \/ SendBatch
    \/ SendBatchFails
    \/ UpdateRecord
    \/ CycleFailure
    \/ Bump
    \/ NextDue
    \/ Sleep

\* the loop is the only task of its event loop: it goes on while it can
SpecPoison == InitPoison /\ [][NextPoison]_vars /\ WF_vars(NextPoison)

\* ------------------------------------------ the owner next to the worker
\* repo_subscriptions.py 64-71: the row is gone, res.scalar_one() raises
\* NoResultFound and process_subscription is left
BumpRowGone ==
    /\ pc = "bump"
    /\ sub.id \notin DOMAIN table
    /\ pc' = "raised"
    /\ UNCHANGED <<table, rds, env, cycle, due, sub, faults, pass_locals, pass_hist,
                   run_hist>>

\* callbacks.py 15-40, my_subs.py 84-102: the owner deletes a watch of theirs in
\* a session of the bot, at any moment of the worker's cycle
OwnerDelete ==
    /\ \E id \in DOMAIN table :
          /\ table' = delete(table, id, table[id].user_id)
          /\ call' = [op |-> "delete", id |-> id, at |-> now, before |-> table,
                      in_hand |-> sub.id]
    /\ UNCHANGED <<rds, now, today, api_mode, dialog, pc, cycle, due, sub, faults,
                   pass_locals, pass_hist, run_hist>>

\* the ceiling the owner lowers a watch to
LowerPrice == 990

\* my_subs.py 41-75: the owner sets a new max_price on a watch of theirs
OwnerUpdateMaxPrice ==
    /\ \E id \in DOMAIN table :
          /\ table[id].max_price # LowerPrice
          /\ table' = update_max_price(table, id, table[id].user_id, LowerPrice)
          /\ call' = [op |-> "update_max_price", id |-> id, at |-> now,
                      before |-> table, in_hand |-> sub.id]
    /\ UNCHANGED <<rds, now, today, api_mode, dialog, pc, cycle, due, sub, faults,
                   pass_locals, pass_hist, run_hist>>

\* the thin and the quiet watch, no floor yet or a floor of 1000
InitOwner ==
    /\ table = [id \in {2, 3} |-> IF id = 2 THEN ThinRow ELSE QuietRow]
    /\ rds \in {NoRecords, [k \in {KeyOf(ThinRow, 20251203)} |-> Record(1000)]}
    /\ api_mode = "by_month"
    /\ pc = "poll"
    /\ Idle

NextOwner ==
    \/ Next
    \/ BumpRowGone
    \/ OwnerDelete
    \/ OwnerUpdateMaxPrice

SpecOwner == InitOwner /\ [][NextOwner]_vars

\* ------------------------------------------------ the repository on its own
\* SubscriptionsRepo's methods called directly on a table whose watches were
\* never checked, are overdue, or are scheduled ahead of the clock.
RepoSchedules == {None, StartTime - 120, StartTime - 60, StartTime + 600}

RepoRow(id, nca) ==
    IF id = 1 THEN [BusyRow EXCEPT !.next_check_at = nca]
    ELSE [ThinRow EXCEPT !.next_check_at = nca]

InitRepo ==
    /\ \E n1 \in RepoSchedules, n2 \in RepoSchedules :
          table = [id \in {1, 2} |-> RepoRow(id, IF id = 1 THEN n1 ELSE n2)]
    /\ rds = NoRecords
    /\ api_mode = "by_month"
    /\ pc = "repo"
    /\ Idle

\* repo_subscriptions.py lines 64-79, called with the clock's reading
CallBumpNextCheck ==
    /\ pc = "repo"
    /\ \E id \in DOMAIN table :
          /\ table' = bump_next_check(table, id, now)
          /\ call' = [op |-> "bump_next_check", id |-> id, at |-> now,
                      before |-> table]
    /\ UNCHANGED <<rds, now, today, api_mode, dialog, pc, cycle, due, sub, faults,
                   pass_locals, pass_hist, run_hist>>

\* repo_subscriptions.py lines 56-62
CallSetActive ==
    /\ pc = "repo"
    /\ \E id \in DOMAIN table, active \in BOOLEAN :
          /\ table' = set_active(table, id, active)
          /\ call' = [op |-> "set_active", id |-> id, at |-> now, before |-> table]
    /\ UNCHANGED <<rds, now, today, api_mode, dialog, pc, cycle, due, sub, faults,
                   pass_locals, pass_hist, run_hist>>

\* repo_subscriptions.py lines 81-95, with a page of one row or the worker's
\* page of 200
CallFetchDue ==
    /\ pc = "repo"
    /\ \E limit \in {SmallLimit, FetchLimit} :
          \E q \in fetch_due(table, now, limit) :
              call' = [op |-> "fetch_due", id |-> None, at |-> now, before |-> table,
                       limit |-> limit, result |-> q]
    /\ UNCHANGED <<table, rds, now, today, api_mode, dialog, pc, cycle, due, sub, faults,
                   pass_locals, pass_hist, run_hist>>

\* repo_subscriptions.py lines 15-45, called as on_save calls it or with
\* active = False
CallCreate ==
    /\ pc = "repo"
    /\ Cardinality(DOMAIN table) <= MaxSubs
    /\ \E active \in BOOLEAN :
          /\ table' = create(table, 103, "KZN", "SVX", 20251204, 20251204, FALSE, 1000,
                             "RUB", 5, active, now)
          /\ call' = [op |-> "create", id |-> NextId(table), at |-> now,
                      before |-> table, active |-> active]
    /\ UNCHANGED <<rds, now, today, api_mode, dialog, pc, cycle, due, sub, faults,
                   pass_locals, pass_hist, run_hist>>

\* a minute goes by between two calls
ClockTick ==
    /\ pc = "repo"
    /\ now < StartTime + 60 * MaxTicks
    /\ now' = now + 60
    /\ UNCHANGED <<table, rds, today, api_mode, dialog, call, pc, cycle, due, sub, faults,
                   pass_locals, pass_hist, run_hist>>

NextRepo ==
    \/ CallBumpNextCheck
    \/ CallSetActive
    \/ CallFetchDue
    \/ CallCreate
    \/ ClockTick

SpecRepo == InitRepo /\ [][NextRepo]_vars

\* ------------------------------------------- the bot's handlers on the store
\* who presses the buttons: the three owners and a stranger
Users == {101, 102, 103, 999}

\* the ids a button or a dialog can carry: the three watches and one that was
\* never created
ButtonIds == {1, 2, 3, 4}

\* the prices typed into the my-subscriptions dialog
TypedPrices == {LowerPrice, 500}

InitHandlers ==
    /\ table = [id \in {1, 2, 3} |->
                   IF id = 1 THEN BusyRow ELSE IF id = 2 THEN ThinRow ELSE QuietRow]
    /\ rds = NoRecords
    /\ api_mode = "by_month"
    /\ pc = "bot"
    /\ Idle

\* callbacks.py lines 15-40: the disable button under a notification; the
\* alert says "disabled" (line 27) or "not found or already deleted" (line 40)
on_disable_subscription ==
    /\ pc = "bot"
    /\ \E sub_id \in ButtonIds, user_id \in Users :
          LET deleted_id == delete_result(table, sub_id, user_id)
          IN /\ table' = delete(table, sub_id, user_id)
             /\ call' = [op |-> "delete", id |-> sub_id, at |-> now, before |-> table,
                         user_id |-> user_id, result |-> deleted_id,
                         answer |-> IF deleted_id # 0 THEN "disabled" ELSE "not_found"]
    /\ UNCHANGED <<rds, now, today, api_mode, dialog, pc, cycle, due, sub, faults,
                   pass_locals, pass_hist, run_hist>>

\* my_subs.py lines 84-102: the delete button of the my-subscriptions dialog;
\* the alert says "deleted" (line 97) or "could not delete" (line 99)
on_delete_confirm ==
    /\ pc = "bot"
    /\ \E sub_id \in ButtonIds, user_id \in Users :
          LET deleted_id == delete_result(table, sub_id, user_id)
          IN /\ table' = delete(table, sub_id, user_id)
             /\ call' = [op |-> "delete", id |-> sub_id, at |-> now, before |-> table,
                         user_id |-> user_id, result |-> deleted_id,
                         answer |-> IF deleted_id # 0 THEN "deleted" ELSE "not_deleted"]
    /\ UNCHANGED <<rds, now, today, api_mode, dialog, pc, cycle, due, sub, faults,
                   pass_locals, pass_hist, run_hist>>

\* my_subs.py lines 41-75: a new maximum price typed into the dialog; the
\* answer says "updated" (line 65) or "could not update" (line 67)
on_price_input ==
    /\ pc = "bot"
    /\ \E sub_id \in ButtonIds, user_id \in Users, new_price \in TypedPrices :
          LET success == update_max_price_result(table, sub_id, user_id)
          IN /\ table' = update_max_price(table, sub_id, user_id, new_price)
             /\ call' = [op |-> "update_max_price", id |-> sub_id, at |-> now,
                         before |-> table, user_id |-> user_id, result |-> success,
                         max_price |-> new_price,
                         answer |-> IF success THEN "updated" ELSE "not_updated"]
    /\ UNCHANGED <<rds, now, today, api_mode, dialog, pc, cycle, due, sub, faults,
                   pass_locals, pass_hist, run_hist>>

NextHandlers ==
    \/ on_disable_subscription
    \/ on_delete_confirm
    \/ on_price_input

SpecHandlers == InitHandlers /\ [][NextHandlers]_vars

\* ------------------------------------------------------ parse_text_request
\* gpt_parser.py line 71: for attempt in range(3)
Attempts == 3
\* line 78: asyncio.sleep(2) before a retry after 502 / 503
RetrySleep == 2
\* line 74: timeout=30, the total time a request may take, body included
PostTimeout == 30

\* the statuses the text API answers with
Statuses == {200, 502, 503, 500, 429}

\* what the model's message content can be: an opening markdown fence (three
\* backticks, with or without "json"), a text, a closing fence.  The text is a JSON dict with the four required fields, a
\* JSON dict without range_to, something json.loads rejects, or nothing.
Contents ==
    [open : {"", "fence_json", "fence"}, text : {"valid", "missing", "garbage", ""},
     close : {"", "fence"}]

\* content = None of line 68
NoContent == [none |-> TRUE]

\* return None
ReturnsNone == [none |-> TRUE]

\* the function has not returned
Pending == [pending |-> TRUE]

\* lines 99 and 104-114: `not content`, or the text left when the fences and
\* the blanks are stripped
cleaned(content) == IF content = NoContent THEN "" ELSE content.text

\* lines 99-130: None for an empty content, for a text json.loads rejects
\* (line 132) and for a dict that lacks a required field (line 123);
\* otherwise the dict
parse_content(content) ==
    IF content = NoContent \/ (content.open = "" /\ content.text = "" /\ content.close = "")
    THEN ReturnsNone
    ELSE IF cleaned(content) = "valid"
    THEN [departure |-> "mow", destination |-> "ist",
          range_from |-> isoformat(20251203), range_to |-> isoformat(20251204)]
    ELSE ReturnsNone

\* a retry loop that gives up after the second request
MayRetryOnce(attempt) == attempt < 1

\* lines 77 and 95: `if attempt < 2`
MayRetry(attempt) == attempt < 2

\* one request of the loop as the log of the call keeps it: the status line
\* received (None when the request timed out before it) and what became of
\* reading the body ("unread" when the code does not read it)
Request(status, body) == [status |-> status, body |-> body]

InitParser ==
    /\ table = [id \in {1} |-> BusyRow]
    /\ rds = NoRecords
    /\ api_mode = "by_month"
    /\ pc = "gpt"
    /\ Idle

\* new_sub.py line 36: process_text_input calls parse_text_request
CallParseTextRequest ==
    /\ pc = "gpt"
    /\ call = NoCall
    /\ call' = [op |-> "parse_text_request", id |-> None, at |-> now, before |-> <<>>,
                attempt |-> 0, requests |-> <<>>, content |-> NoContent,
                result |-> Pending]
    /\ pc' = "post"
    /\ UNCHANGED <<table, rds, now, today, api_mode, dialog, cycle, due, sub, faults,
                   pass_locals, pass_hist, run_hist>>

\* the rest of the state while parse_text_request runs
ParserOnly ==
    UNCHANGED <<table, rds, today, api_mode, dialog, cycle, due, sub, faults,
                pass_locals, pass_hist, run_hist>>

\* `continue`: the next iteration of range(3), or the end of the loop
NextAttempt(c) ==
    /\ call' = [c EXCEPT !.attempt = @ + 1]
    /\ pc' = IF c.attempt + 1 < Attempts THEN "post" ELSE "after_loop"

\* `return None` from inside the loop
ReturnNone(c) ==
    /\ call' = [c EXCEPT !.result = ReturnsNone]
    /\ pc' = "returned"

\* lines 75-80: status 502 or 503
PostUnavailable ==
    /\ pc = "post"
    /\ \E status \in {502, 503} :
          LET c == [call EXCEPT !.requests = Append(@, Request(status, "unread"))]
          IN IF MayRetry(call.attempt)
             THEN NextAttempt(c) /\ now' = now + RetrySleep
             ELSE ReturnNone(c) /\ now' = now
    /\ ParserOnly

\* lines 82-86: another status that is not 200; its body is read for the log.
\* A body that does not arrive within the request's 30 seconds raises
\* asyncio.TimeoutError inside the try of line 73.
PostOtherStatus ==
    /\ pc = "post"
    /\ \E status \in Statuses \ {200, 502, 503}, body \in {"read", "timeout"} :
          LET c == [call EXCEPT !.requests = Append(@, Request(status, body))]
          IN IF body = "read" THEN ReturnNone(c) /\ now' = now
             ELSE IF MayRetry(call.attempt) THEN NextAttempt(c) /\ now' = now + PostTimeout
             ELSE ReturnNone(c) /\ now' = now + PostTimeout
    /\ ParserOnly

\* lines 88-91: status 200 and the body parsed as JSON: content is taken from
\* it and the loop is left
PostOk ==
    /\ pc = "post"
    /\ \E content \in Contents :
          /\ call' = [call EXCEPT !.requests = Append(@, Request(200, "read")),
                                  !.content = content]
          /\ pc' = "after_loop"
    /\ now' = now
    /\ ParserOnly

\* line 88 under the except of line 93: status 200, but the body does not
\* arrive within the request's 30 seconds
PostOkBodyTimeout ==
    /\ pc = "post"
    /\ LET c == [call EXCEPT !.requests = Append(@, Request(200, "timeout"))]
       IN IF MayRetry(call.attempt) THEN NextAttempt(c) ELSE ReturnNone(c)
    /\ now' = now + PostTimeout
    /\ ParserOnly

\* lines 93-97: no status line within 30 seconds
PostTimesOut ==
    /\ pc = "post"
    /\ LET c == [call EXCEPT !.requests = Append(@, Request(None, "unread"))]
       IN IF MayRetry(call.attempt) THEN NextAttempt(c) ELSE ReturnNone(c)
    /\ now' = now + PostTimeout
    /\ ParserOnly

\* lines 136-140: any other exception of the request (connection refused, a
\* 200 body that is not JSON) is caught outside the loop
PostRaises ==
    /\ pc = "post"
    /\ \E r \in {Request(None, "error"), Request(200, "error")} :
          ReturnNone([call EXCEPT !.requests = Append(@, r)])
    /\ now' = now
    /\ ParserOnly

\* lines 99-130: after the loop the content is cleaned, parsed and validated
CleanAndValidate ==
    /\ pc = "after_loop"
    /\ call' = [call EXCEPT !.result = parse_content(call.content)]
    /\ pc' = "returned"
    /\ now' = now
    /\ ParserOnly

NextParser ==
    \/ CallParseTextRequest
    \/ PostUnavailable
    \/ PostOtherStatus
    \/ PostOk
    \/ PostOkBodyTimeout
    \/ PostTimesOut
    \/ PostRaises
    \/ CleanAndValidate

SpecParser == InitParser /\ [][NextParser]_vars

\* ---------------------------------------------------- month_span on its own
\* the first, a middle and a late day of every month of the years modelled
SpanDays ==
    {Date(y, m, d) : y \in 2025..(2025 + SpanYears), m \in 1..12, d \in {1, 15, 28}}

InitSpan ==
    /\ table = <<>>
    /\ rds = NoRecords
    /\ api_mode = "by_month"
    /\ pc = "span"
    /\ \E d1 \in SpanDays, d2 \in SpanDays :
          /\ d1 <= d2
          /\ call = [op |-> "pending", id |-> None, at |-> None, before |-> <<>>,
                     d1 |-> d1, d2 |-> d2]
    /\ IdleButCall

\* worker.py lines 67-79, called on the interval
CallMonthSpan ==
    /\ pc = "span"
    /\ call.op = "pending"
    /\ months' = month_span(call.d1, call.d2)
    /\ call' = [call EXCEPT !.op = "month_span"]
    /\ UNCHANGED <<table, rds, now, today, api_mode, dialog, pc, cycle, due, sub, faults,
                   offers_by_date, notifications_to_send, i, j, total_sent,
                   pass_hist, run_hist>>

NextSpan == CallMonthSpan

SpecSpan == InitSpan /\ [][NextSpan]_vars


\* ================================================================= properties
\* process_subscription has returned for the watch in hand
Returned == pc = "returned"

\* ... and the watch had not expired: the pass checked prices
Checked == Returned /\ ~(sub.range_to < today)

\* the tracking key of a date string for the watch in hand
SubKey(date_str) ==
    price_tracking_key(sub.id, sub.origin, sub.destination, date_str, sub.direct)

\* the floor a record held when the pass began
Floor0(key) == float_str(rds0[key].value)

\* the candidates handed to send_message so far, in the order handed over
RECURSIVE Handed(_)
Handed(ss) == IF ss = <<>> THEN <<>> ELSE Head(ss).batch \o Handed(Tail(ss))

\* the keys of the candidates handed to send_message so far
HandedKeys ==
    UNION {{sends[k].batch[n].tracking_key : n \in 1..Len(sends[k].batch)} :
              k \in 1..Len(sends)}

\* -------------------------------------------------------------------- C1
\* C1: a date whose price-floor record exists when the pass evaluates it is
\* collected as a candidate only when its cheapest price p is below the stored
\* floor and the drop (old - p) / old * 100 is at least 2 (1000 -> 980 is
\* collected, 1000 -> 990 is not); a date evaluated with p >= old or a smaller
\* drop is not collected in that pass.
C1_NotifyOnlyOnSignificantDrop ==
    /\ \A k \in 1..Len(notifications_to_send) :
          LET c == notifications_to_send[k]
          IN c.tracking_key \in DOMAIN rds0 =>
                /\ c.new_price < Floor0(c.tracking_key)
                /\ (Floor0(c.tracking_key) - c.new_price) * 100
                      >= 2 * Floor0(c.tracking_key)
                /\ c.old_price = Floor0(c.tracking_key)
    /\ \A key \in suppressed :
          /\ key \in DOMAIN rds0
          /\ \A k \in 1..Len(notifications_to_send) :
                notifications_to_send[k].tracking_key # key

\* a pass that collected the drop 1000 -> 980, exactly 2 per cent
C1_Witness ==
    /\ Checked
    /\ \E k \in 1..Len(notifications_to_send) :
          /\ notifications_to_send[k].tracking_key \in DOMAIN rds0
          /\ Floor0(notifications_to_send[k].tracking_key) = 1000
          /\ notifications_to_send[k].new_price = 980

\* a pass that met 990 against a floor of 1000 and collected nothing for it
C1_Suppressed ==
    /\ Checked
    /\ \E key \in suppressed : Floor0(key) = 1000
    /\ notifications_to_send = <<>>

\* -------------------------------------------------------------------- C2
\* C2 as stated: every date that survived filtering in a finished pass and
\* had no price-floor record when the pass began got a notification handed to
\* send_message in that pass, whatever its price.
C2_EveryNewDateNotified ==
    Checked =>
        \A date_str \in seen :
            SubKey(date_str) \notin DOMAIN rds0 => SubKey(date_str) \in HandedKeys

\* C2: a surviving date without a record is collected as a candidate, whatever
\* its price, when the pass evaluates it, and the pass hands every candidate
\* to send_message before it returns; a date is left unevaluated only when
\* ten candidates were already collected before it was reached.
C2_NewDateNotifiedUnlessCapped ==
    /\ \A key \in evaluated :
          key \notin DOMAIN rds0 =>
              \E k \in 1..Len(notifications_to_send) :
                  /\ notifications_to_send[k].tracking_key = key
                  /\ notifications_to_send[k].old_price = None
    /\ Checked =>
          /\ \A key \in evaluated : key \notin DOMAIN rds0 => key \in HandedKeys
          /\ Len(notifications_to_send) < 10 =>
                \A date_str \in seen : SubKey(date_str) \in evaluated

\* a finished pass that notified a first discovery and, having collected ten
\* candidates, left another surviving date without a record unevaluated
C2_Witness ==
    /\ Checked
    /\ Len(notifications_to_send) = 10
    /\ \E key \in HandedKeys : key \notin DOMAIN rds0
    /\ \E date_str \in seen :
          SubKey(date_str) \notin DOMAIN rds0 /\ SubKey(date_str) \notin evaluated

\* -------------------------------------------------------------------- C3
\* C3 as stated: when the pass has ended, the price-floor record of every
\* candidate it collected holds the candidate's price (as the text of the
\* float) and a 90-day expiry.
C3_RecordHoldsNotifiedPrice ==
    Checked =>
        \A k \in 1..Len(notifications_to_send) :
            LET c == notifications_to_send[k]
            IN /\ c.tracking_key \in DOMAIN rds
               /\ rds[c.tracking_key] = [value |-> c.new_price * 10, ttl |-> 7776000]

\* C3: the record of a candidate holds the candidate's price and a 90-day
\* expiry once send_message succeeded for its batch and the set and expire
\* calls for it returned (no later candidate of the pass sharing its key); the
\* candidates of a batch whose send_message raised leave the cache as it was.
C3_RecordHoldsDeliveredPrice ==
    \A k \in 1..Len(sends) :
        /\ sends[k].recorded <= Len(sends[k].batch)
        /\ ~sends[k].ok => sends[k].recorded = 0
        /\ \A n \in 1..sends[k].recorded :
              LET c == sends[k].batch[n]
                  later == \E k2 \in k..Len(sends) :
                              \E n2 \in 1..sends[k2].recorded :
                                  /\ (k2 > k \/ n2 > n)
                                  /\ sends[k2].batch[n2].tracking_key = c.tracking_key
              IN ~later =>
                    /\ c.tracking_key \in DOMAIN rds
                    /\ rds[c.tracking_key] = [value |-> c.new_price * 10, ttl |-> 7776000]
        /\ (\A k2 \in 1..Len(sends) : ~sends[k2].ok) => rds = rds0

\* a finished pass whose delivered batch lowered a floor from 1000 to 980
\* while its other batch failed and left its dates without a record
C3_Witness ==
    /\ Checked
    /\ \E k \in 1..Len(sends) :
          /\ sends[k].ok
          /\ \E n \in 1..sends[k].recorded :
                /\ sends[k].batch[n].old_price = 1000
                /\ rds[sends[k].batch[n].tracking_key].value = 9800
    /\ \E k \in 1..Len(sends) :
          /\ ~sends[k].ok
          /\ \E n \in 1..Len(sends[k].batch) :
                sends[k].batch[n].tracking_key \notin DOMAIN rds

C5_CapOfTen ==
    /\ [](Len(notifications_to_send) <= 10)
    /\ [][Len(notifications_to_send) >= 10 =>
              \/ notifications_to_send' = <<>>
              \/ /\ notifications_to_send' = notifications_to_send
                 /\ evaluated' = evaluated
                 /\ fetch_log' = fetch_log]_vars

\* ten candidates collected with a later date of the month and a later month
\* of the range left alone, and the pass finished
C5_Witness ==
    /\ Checked
    /\ Len(notifications_to_send) = 10
    /\ \E date_str \in seen : SubKey(date_str) \notin evaluated
    /\ Len(fetch_log) < Len(month_span(sub.range_from, sub.range_to))

\* -------------------------------------------------------------------- C6
\* C6: the messages of a pass carry its candidates in discovery order, each
\* message between 1 and 5 of them, consecutive slices without gap or overlap;
\* a pass makes at most 2 offer sends, and when it returns every collected
\* candidate has been in exactly one send attempt.
C6_BatchesOfFive ==
    /\ Len(sends) <= 2
    /\ \A k \in 1..Len(sends) : Len(sends[k].batch) \in 1..5
    /\ Len(Handed(sends)) <= Len(notifications_to_send)
    /\ Handed(sends) = SubSeq(notifications_to_send, 1, Len(Handed(sends)))
    /\ \A k \in 1..(Len(sends) - 1) : Len(sends[k].batch) = 5
    /\ Checked => Handed(sends) = notifications_to_send

\* a finished pass that sent seven candidates as a message of five and a
\* message of two
C6_SevenInTwo ==
    /\ Checked
    /\ Len(notifications_to_send) > 5
    /\ Len(notifications_to_send) < 10
    /\ Len(sends) = 2
    /\ Len(sends[2].batch) = Len(notifications_to_send) - 5

C8_PassEndsWithBump ==
    Checked =>
        /\ sub.id \in DOMAIN table
        /\ table[sub.id].last_checked_at = now
        /\ table[sub.id].next_check_at = now + 60 * sub.check_interval_minutes

\* a pass returned after a month failed to fetch and a batch failed to send
C8_Witness ==
    /\ Checked
    /\ \E k \in 1..Len(fetch_log) : fetch_log[k][2] = "failed"
    /\ \E k \in 1..Len(sends) : ~sends[k].ok
    /\ table[sub.id].next_check_at = now + 60 * sub.check_interval_minutes

\* a pass returned with every month failed and nothing collected
C8_NothingCollected ==
    /\ Checked
    /\ fetch_log # <<>>
    /\ \A k \in 1..Len(fetch_log) : fetch_log[k][2] = "failed"
    /\ notifications_to_send = <<>>

\* -------------------------------------------------------------------- C9
\* C9: bump_next_check(id) leaves the watch with last_checked_at = now and
\* next_check_at = now + 60 * its own check_interval_minutes, whether its
\* next_check_at was null, in the past or in the future, and changes no
\* other watch.
C9_BumpFromNow ==
    call.op = "bump_next_check" =>
        LET row == call.before[call.id]
        IN /\ table[call.id].last_checked_at = call.at
           /\ table[call.id].next_check_at = call.at + 60 * row.check_interval_minutes
           /\ \A id \in DOMAIN table \ {call.id} : table[id] = call.before[id]
           /\ DOMAIN table = DOMAIN call.before

\* the watch bumped last was scheduled ahead of the clock
C9_Witness ==
    /\ call.op = "bump_next_check"
    /\ call.before[call.id].next_check_at > call.at
    /\ table[call.id].next_check_at = call.at + 60 * call.before[call.id].check_interval_minutes
    /\ table[call.id].next_check_at < call.before[call.id].next_check_at

\* ------------------------------------------------------------------- C10
\* the position of a "%Y-%m" token on the calendar
MonthIndex(mon) == mon[1] * 12 + mon[2]

RequestsFor(mon) == Cardinality({k \in 1..Len(fetch_log) : fetch_log[k][1] = mon})

\* C11: a month is reported as failed only after three requests were made
\* for it.
C11_ThreeAttemptsBeforeFailure ==
    \A k \in 1..Len(fetch_log) :
        fetch_log[k][2] = "failed" => RequestsFor(fetch_log[k][1]) = 3

\* ------------------------------------------------------------------- C12
\* the record a stored candidate leaves behind
RecordOf(c) == [value |-> c.new_price * 10, ttl |-> 7776000]

\* C12: a send_message failure changes no price-floor record; the records
\* written for a batch delivered earlier in the pass still hold their new
\* values after a later batch has failed; and a pass that returns has
\* attempted every batch, whichever of them failed.
C12_FailedBatchBlocksNothing ==
    /\ [][(Len(sends') = Len(sends) + 1 /\ ~sends'[Len(sends')].ok) => rds' = rds]_vars
    /\ [](\A k \in 1..Len(sends) : \A k2 \in (k + 1)..Len(sends) :
            ~sends[k2].ok =>
                \A n \in 1..sends[k].recorded :
                    /\ sends[k].batch[n].tracking_key \in DOMAIN rds
                    /\ rds[sends[k].batch[n].tracking_key] = RecordOf(sends[k].batch[n]))
    /\ []((Checked /\ \E k \in 1..Len(sends) : ~sends[k].ok) =>
            /\ Handed(sends) = notifications_to_send
            /\ Len(sends) * 5 >= Len(notifications_to_send))

\* the first batch failed, the second was sent and its floors were stored
C12_Witness ==
    /\ Checked
    /\ Len(sends) = 2
    /\ ~sends[1].ok
    /\ sends[2].ok
    /\ sends[2].recorded = Len(sends[2].batch)

\* the first batch lowered a floor from 1000, the second failed
C12_EarlierRecordsKept ==
    /\ Checked
    /\ Len(sends) = 2
    /\ sends[1].ok
    /\ ~sends[2].ok
    /\ \E n \in 1..sends[1].recorded :
          /\ sends[1].batch[n].old_price = 1000
          /\ rds[sends[1].batch[n].tracking_key] = RecordOf(sends[1].batch[n])

\* ------------------------------------------------------------------- C13
\* the keys whose record differs between two states of the cache
Written(before, after) ==
    {key \in DOMAIN after : key \notin DOMAIN before \/ after[key] # before[key]}

\* C13: every record that differs from what the pass found belongs to a
\* candidate of a batch whose send_message was already attempted in the pass,
\* and each write goes to a candidate of the batch attempted last.
C13_WriteOnlyAfterAttempt ==
    /\ [](DOMAIN rds0 \subseteq DOMAIN rds)
    /\ [](Written(rds0, rds) \subseteq HandedKeys)
    /\ [][rds' # rds =>
            /\ sends # <<>>
            /\ Len(sends') = Len(sends)
            /\ Written(rds, rds') \subseteq
                  {sends[Len(sends)].batch[n].tracking_key :
                       n \in 1..Len(sends[Len(sends)].batch)}]_vars

\* floors of the first batch are stored while the second batch, not yet
\* attempted, has none
C13_Witness ==
    /\ pc = "batches"
    /\ Len(sends) = 1
    /\ Len(notifications_to_send) > 5
    /\ Written(rds0, rds) # {}
    /\ \A k \in 6..Len(notifications_to_send) :
          notifications_to_send[k].tracking_key \notin DOMAIN rds

\* ------------------------------------------------------------------- C14
\* the ids of the rows the last fetch_due returned
ResultIds == {call.result[k].id : k \in 1..Len(call.result)}

\* a row of the table fetch_due read is active and not scheduled ahead
DueAt(row, at) == row.active /\ (row.next_check_at = -1 \/ row.next_check_at <= at)

\* a due row that comes before row r or ties with it in the query's order
MayPrecede(x, r) == x.next_check_at = -1 \/ x.next_check_at <= r.next_check_at

\* C14: fetch_due returns rows of the table as they are, each of them active
\* with next_check_at null or not after now; an inactive row and a row
\* scheduled ahead of now are not returned; an active row scheduled in the
\* past is returned when fewer than limit other due rows come before it or
\* tie with it.
C14_FetchDueOnlyDue ==
    call.op = "fetch_due" =>
        /\ \A k \in 1..Len(call.result) :
              /\ call.result[k].id \in DOMAIN call.before
              /\ call.result[k] = call.before[call.result[k].id]
              /\ call.result[k].active = TRUE
              /\ \/ call.result[k].next_check_at = -1
                 \/ call.result[k].next_check_at <= call.at
        /\ \A id \in DOMAIN call.before :
              LET r == call.before[id]
              IN /\ ~r.active => id \notin ResultIds
                 /\ (r.next_check_at # -1 /\ r.next_check_at > call.at) =>
                        id \notin ResultIds
                 /\ (/\ r.active
                     /\ r.next_check_at # -1
                     /\ r.next_check_at <= call.at
                     /\ Cardinality({x \in DOMAIN call.before \ {id} :
                                        /\ DueAt(call.before[x], call.at)
                                        /\ MayPrecede(call.before[x], r)})
                           < call.limit) => id \in ResultIds

\* of an overdue watch and an inactive watch that was never checked, the
\* page of 200 holds the overdue one alone
C14_Witness ==
    /\ call.op = "fetch_due"
    /\ call.limit = 200
    /\ Len(call.result) = 1
    /\ call.result[1].next_check_at # -1
    /\ call.result[1].next_check_at < call.at
    /\ \E id \in DOMAIN call.before :
          ~call.before[id].active /\ call.before[id].next_check_at = -1

\* of an overdue watch and a watch scheduled ahead, the page holds the
\* overdue one alone
C14_FutureLeftOut ==
    /\ call.op = "fetch_due"
    /\ Len(call.result) = 1
    /\ \E id \in DOMAIN call.before :
          call.before[id].active /\ call.before[id].next_check_at > call.at

\* the watch the worker has in hand was active and due when the cycle began
C14_WorkerProcessesOnlyDue ==
    sub # NoSub =>
        /\ sub.active = TRUE
        /\ sub.next_check_at = -1 \/ sub.next_check_at <= now

\* ------------------------------------------------------------------- C15
\* C15: fetch_due returns at most limit rows, no row twice, rows with null
\* next_check_at first and the others in ascending next_check_at; as many
\* rows as are due up to the limit; and no due active row left out comes
\* strictly before a returned row in that order.
C15_FetchDueOrderedPage ==
    call.op = "fetch_due" =>
        /\ Len(call.result) <= call.limit
        /\ call.limit <= 200
        /\ \A a, b \in 1..Len(call.result) :
              a < b =>
                 /\ call.result[a].id # call.result[b].id
                 /\ \/ call.result[a].next_check_at = -1
                    \/ /\ call.result[b].next_check_at # -1
                       /\ call.result[a].next_check_at <= call.result[b].next_check_at
        /\ LET dueIds == {id \in DOMAIN call.before : DueAt(call.before[id], call.at)}
           IN /\ Len(call.result) =
                    (IF Cardinality(dueIds) < call.limit THEN Cardinality(dueIds)
                     ELSE call.limit)
              /\ \A x \in dueIds \ ResultIds : \A k \in 1..Len(call.result) :
                    LET r == call.before[x]
                        y == call.result[k]
                    IN /\ r.next_check_at = -1 => y.next_check_at = -1
                       /\ (r.next_check_at # -1 /\ y.next_check_at # -1) =>
                              r.next_check_at >= y.next_check_at

\* a page of one taken from a never-checked watch and an overdue watch holds
\* the never-checked one
C15_Witness ==
    /\ call.op = "fetch_due"
    /\ call.limit = 1
    /\ Len(call.result) = 1
    /\ call.result[1].next_check_at = -1
    /\ \E id \in DOMAIN call.before :
          /\ id # call.result[1].id
          /\ DueAt(call.before[id], call.at)
          /\ call.before[id].next_check_at # -1

\* the page of 200 holds two overdue watches, the longer overdue first
C15_AscendingPair ==
    /\ call.op = "fetch_due"
    /\ Len(call.result) = 2
    /\ call.result[1].next_check_at # -1
    /\ call.result[1].next_check_at < call.result[2].next_check_at

\* ------------------------------------------------------------------- C16
\* C16: an exception raised in a cycle, by fetch_due or by the pass of a
\* watch, never stops the loop: the rest of the cycle is dropped, the loop
\* sleeps 300 seconds and is back at the poll, and, as long as the run
\* goes on, another fetch_due follows.
C16_LoopSurvivesException ==
    /\ [](pc # "stopped")
    /\ [][pc = "raised" => (pc' = "loop" /\ due' = <<>> /\ now' = now)]_vars
    /\ [][(pc = "loop" /\ due = <<>>) => (pc' = "poll" /\ now' = now + 300)]_vars
    /\ (pc = "raised") ~> (pc = "poll")
    /\ \A c \in 1..(MaxCycles - 1) : (pc = "raised" /\ cycle = c) ~> (cycle = c + 1)

\* a second cycle has begun, 300 seconds after an exception ended the first
\* with a watch still waiting in the due list
C16_Witness ==
    /\ cycle = 2
    /\ faults = 1
    /\ now = StartTime + 300
    /\ pc = "loop"
    /\ due # <<>>
    /\ \A id \in DOMAIN table : table[id].last_checked_at = -1

\* ------------------------------------------------------------------- C17
\* the offers grouped for the month in hand and the offers of the queued and
\* of the sent notifications
GroupedOffers ==
    UNION {{offers_by_date[k][2][n] : n \in 1..Len(offers_by_date[k][2])} :
              k \in 1..Len(offers_by_date)}

NotifiedOffers ==
    {notifications_to_send[k].offer : k \in 1..Len(notifications_to_send)}
    \cup UNION {{sends[k].batch[n].offer : n \in 1..Len(sends[k].batch)} :
                   k \in 1..Len(sends)}

\* C17: every grouped offer and every offer of a notification costs at most
\* the watch's max_price and departs on a day from range_from to range_to,
\* and is grouped under its own departure day, whatever list the API
\* returned for the month.
C17_FilterKeepsCeilingAndRange ==
    /\ \A f \in GroupedOffers \cup NotifiedOffers :
          /\ f.price <= sub.max_price
          /\ sub.range_from <= f.departure_at \div 100
          /\ f.departure_at \div 100 <= sub.range_to
    /\ \A k \in 1..Len(offers_by_date) : \A n \in 1..Len(offers_by_date[k][2]) :
          offers_by_date[k][1] = strftime_Ymd(offers_by_date[k][2][n].departure_at \div 100)

\* an answer held an offer above the ceiling or outside the range next to
\* one that qualified, and the one that qualified was sent
C17_Witness ==
    /\ Checked
    /\ \E k \in 1..Len(fetch_log) :
          fetch_log[k][3] \cap {"price", "date"} # {}
    /\ \E k \in 1..Len(sends) : sends[k].ok
    /\ \E f \in NotifiedOffers : f.price = 980

\* ------------------------------------------------------------------- C18
\* an answer of the pass held an offer without price or without departure
MalformedSeen ==
    \E k \in 1..Len(fetch_log) : fetch_log[k][3] \cap {"no_price", "no_departure"} # {}

\* C18: an offer without price or without departure timestamp is neither
\* grouped nor notified; the answer that held it is processed like any
\* other (no exception leaves the pass at that point), and a pass that met
\* one and returns has requested its months as usual and advanced the
\* watch's schedule.
C18_MalformedOfferDropped ==
    /\ [](\A f \in GroupedOffers \cup NotifiedOffers :
              f.price # -1 /\ f.departure_at # -1)
    /\ [][(Len(fetch_log') = Len(fetch_log) + 1 /\ fetch_log'[Len(fetch_log')][2] = "ok")
              => pc' \in {"months", "dates"}]_vars
    /\ []((Checked /\ MalformedSeen) =>
              /\ table[sub.id].last_checked_at = now
              /\ table[sub.id].next_check_at = now + 60 * sub.check_interval_minutes
              /\ Len(notifications_to_send) < 10 =>
                    fetch_log[Len(fetch_log)][1] = strftime_Ym(sub.range_to))

\* a December answer held a malformed offer and a good one: the good one was
\* sent, January was requested after it, and the schedule was advanced
C18_Witness ==
    /\ Checked
    /\ Len(fetch_log) = 2
    /\ fetch_log[1][3] \cap {"no_price", "no_departure"} # {}
    /\ NotifiedOffers # {}
    /\ \E k \in 1..Len(sends) : sends[k].ok
    /\ table[sub.id].next_check_at = now + 60 * sub.check_interval_minutes

\* ------------------------------------------------------------------- C19
\* the "%Y-%m" token of the month a day lies in
MonthOf(d) == <<d \div 10000, (d \div 100) % 100>>

\* C19: for s <= e, month_span(s, e) lists the months from the month of s to
\* the month of e, ascending by one month at a time (no gap, no duplicate);
\* every day of [s, e] lies in a listed month, every listed month holds a day
\* of [s, e], and s = e gives exactly one month.
C19_MonthSpanCovers ==
    call.op = "month_span" =>
        /\ Len(months) = MonthIndex(MonthOf(call.d2)) - MonthIndex(MonthOf(call.d1)) + 1
        /\ \A k \in 1..Len(months) :
              /\ months[k][2] \in 1..12
              /\ MonthIndex(months[k]) = MonthIndex(MonthOf(call.d1)) + k - 1
        /\ \A d \in SpanDays :
              (call.d1 <= d /\ d <= call.d2) =>
                  \E k \in 1..Len(months) : months[k] = MonthOf(d)
        /\ \A k \in 1..Len(months) :
              \E dd \in 1..31 :
                  LET d == months[k][1] * 10000 + months[k][2] * 100 + dd
                  IN call.d1 <= d /\ d <= call.d2
        /\ call.d1 = call.d2 => months = <<MonthOf(call.d1)>>

\* 15 November 2025 to 15 February 2026 gives four months across the new year
C19_Witness ==
    /\ call.op = "month_span"
    /\ call.d1 = 20251115
    /\ call.d2 = 20260215
    /\ months = << <<2025, 11>>, <<2025, 12>>, <<2026, 1>>, <<2026, 2>> >>

\* the single day 28 December 2025 gives December 2025 alone
C19_SingleDay ==
    /\ call.op = "month_span"
    /\ call.d1 = 20251228
    /\ call.d2 = 20251228
    /\ months = << <<2025, 12>> >>

\* ------------------------------------------------------------------- C20
\* the candidates the pass has queued or handed to send_message
PassCandidates ==
    {notifications_to_send[k] : k \in 1..Len(notifications_to_send)}
    \cup UNION {{sends[k].batch[n] : n \in 1..Len(sends[k].batch)} : k \in 1..Len(sends)}

C21_OtherWatchesUntouched ==
    /\ [][\A id \in DOMAIN table :
              id # sub.id => (id \in DOMAIN table' /\ table'[id] = table[id])]_vars
    /\ [][\A key \in Written(rds, rds') : key[2] = sub.id]_vars
    /\ [](\A key \in evaluated : key[2] = sub.id)
    /\ [](\A c \in PassCandidates : c.tracking_key[2] = sub.id)

\* the thin watch's pass stored floors and returned; the quiet watch, still
\* waiting in the due list, is as it was
C21_Witness ==
    /\ Checked
    /\ sub.id = 2
    /\ Written(rds0, rds) # {}
    /\ Len(due) = 1
    /\ due[1].id = 3
    /\ table[3] = QuietRow
    /\ table[2].last_checked_at = now

\* the first watch's pass was cut short by an exception after it had read the
\* cache; both watches are as they were
C21_FailedPartWay ==
    /\ pc = "raised"
    /\ sub # NoSub
    /\ evaluated # {}
    /\ table = [id \in {2, 3} |-> IF id = 2 THEN ThinRow ELSE QuietRow]

\* ------------------------------------------------------------------- C22
\* C22: a worker that a signal ended while a watch was in hand has
\* finished that watch's pass: the watch was rescheduled at the time of
\* the pass, or removed because its range had expired.
C22_ShutdownFinishesPass ==
    (pc = "exited" /\ sub # NoSub) =>
        \/ sub.id \notin DOMAIN table
        \/ table[sub.id].last_checked_at = now

\* ------------------------------------------------------------------- C23
\* the dates of the steady watch's range, each with an offer under the ceiling
SteadyDates ==
    {Date(2025, 11, d) : d \in 2..MaxDay} \cup {Date(2025, 12, d) : d \in 1..MaxDay}
    \cup {Date(2026, 1, d) : d \in 1..MaxDay}

\* the pass in hand stopped collecting at the cap
Capped == sub # NoSub /\ Len(notifications_to_send) >= NotifyCap

\* C23: a date the capped pass did not evaluate is evaluated by a later pass
\* of the watch, and handed to send_message there when it has no floor yet or
\* its price is a significant drop; the capped pass itself evaluates nothing
\* more.
C23_DeferredDatesEvaluatedLater ==
    /\ \A d \in SteadyDates :
          (Capped /\ KeyOf(SteadyRow, d) \notin evaluated)
              ~> (/\ sub # NoSub
                  /\ KeyOf(SteadyRow, d) \in evaluated
                  /\ \/ KeyOf(SteadyRow, d) \in suppressed
                     \/ \E k \in 1..Len(notifications_to_send) :
                           notifications_to_send[k].tracking_key = KeyOf(SteadyRow, d))
    /\ \A d \in SteadyDates :
          (Capped /\ KeyOf(SteadyRow, d) \notin evaluated
                  /\ KeyOf(SteadyRow, d) \notin DOMAIN rds)
              ~> (Returned /\ KeyOf(SteadyRow, d) \in HandedKeys
                           /\ KeyOf(SteadyRow, d) \in DOMAIN rds)
    /\ [][Capped => (evaluated' = evaluated \/ sub' = NoSub)]_vars

\* the first pass stopped at the cap before a January date; the second pass
\* has sent that date's first notification and returned
C23_Witness ==
    /\ Returned
    /\ cycle = 2
    /\ KeyOf(SteadyRow, Date(2026, 1, MaxDay)) \in HandedKeys
    /\ KeyOf(SteadyRow, Date(2026, 1, MaxDay)) \notin DOMAIN rds0
    /\ \E d \in SteadyDates : KeyOf(SteadyRow, d) \in DOMAIN notified

C25_RangeOrdered ==
    \A id \in DOMAIN table : table[id].range_from <= table[id].range_to

\* ------------------------------------------------------------------- C26
\* the rows of the repository's table that create added
CreatedIds(t) == DOMAIN t \ {1, 2}

\* a row as create left it: active, never checked, scheduled
AsCreated(row) ==
    row.active /\ row.last_checked_at = None /\ row.next_check_at # None

\* C26: create adds one row under a new id with next_check_at = the time of
\* the call and leaves the other rows alone; created with active = true, the
\* row is due from that moment, and a fetch_due that finds it as create left
\* it returns it when fewer than limit other due rows come before it or tie
\* with it.
C26_CreatedWatchFetched ==
    /\ call.op = "create" =>
          /\ call.id # None
          /\ call.id \notin DOMAIN call.before
          /\ DOMAIN table = DOMAIN call.before \cup {call.id}
          /\ \A id \in DOMAIN call.before : table[id] = call.before[id]
          /\ table[call.id].id = call.id
          /\ table[call.id].next_check_at = call.at
          /\ table[call.id].last_checked_at = None
          /\ table[call.id].active = call.active
          /\ call.active => IsDue(table[call.id], now)
    /\ call.op = "fetch_due" =>
          \A id \in CreatedIds(call.before) :
              LET r == call.before[id]
              IN (/\ AsCreated(r)
                  /\ Cardinality({x \in DOMAIN call.before \ {id} :
                                     /\ DueAt(call.before[x], call.at)
                                     /\ MayPrecede(call.before[x], r)})
                        < call.limit) => id \in ResultIds

\* a minute after its creation the new watch comes back in the page of 200,
\* behind a watch never checked and an overdue one
C26_Witness ==
    /\ call.op = "fetch_due"
    /\ call.limit = FetchLimit
    /\ Len(call.result) = 3
    /\ call.result[3].id = 3
    /\ AsCreated(call.result[3])
    /\ call.result[3].next_check_at < call.at
    /\ call.result[1].next_check_at = None

\* with a page of one row and an overdue watch before it, the new watch is
\* left for a later poll
C26_CrowdedOut ==
    /\ call.op = "fetch_due"
    /\ call.limit = SmallLimit
    /\ 3 \in DOMAIN call.before
    /\ AsCreated(call.before[3])
    /\ DueAt(call.before[3], call.at)
    /\ 3 \notin ResultIds

\* ------------------------------------------------------------------- C27
\* what the user set up: every column of a row but the two timestamps
UserColumns(row) ==
    [row EXCEPT !.last_checked_at = None, !.next_check_at = None]

LastBatchKeys ==
    {sends[Len(sends)].batch[n].tracking_key : n \in 1..Len(sends[Len(sends)].batch)}

\* C28: in a pass of a watch whose range is not over, a month is requested
\* and a floor is looked up only while nothing has been handed to
\* send_message; a floor is written only for a candidate of the batch sent
\* last, after that send succeeded; and the schedule is advanced once, when
\* every queued candidate has been handed over, after which the pass sends
\* and writes nothing more.
C28_PassStepsInOrder ==
    /\ [][(Len(fetch_log') > Len(fetch_log) \/ evaluated' \ evaluated # {}) =>
              /\ sends = <<>>
              /\ sends' = <<>>
              /\ rds' = rds
              /\ table' = table]_vars
    /\ [][rds' # rds =>
              /\ sends # <<>>
              /\ sends[Len(sends)].ok
              /\ Len(sends') = Len(sends)
              /\ Written(rds, rds') \subseteq LastBatchKeys
              /\ table' = table]_vars
    /\ [][(table' # table /\ ~(sub.range_to < today)) =>
              /\ pc = "bump"
              /\ pc' = "returned"
              /\ Len(sends) * batch_size >= Len(notifications_to_send)
              /\ i >= Len(notifications_to_send) \/ notifications_to_send = <<>>
              /\ months = <<>> \/ Len(notifications_to_send) >= NotifyCap]_vars
    /\ [][pc = "returned" => (pc' = "loop" /\ rds' = rds /\ table' = table)]_vars

\* the thin watch's pass: two months requested, a floor looked up, one batch
\* sent, its floor stored, and then the schedule advanced
C28_Witness ==
    /\ Checked
    /\ Len(fetch_log) = 2
    /\ evaluated # {}
    /\ Len(sends) = 1
    /\ sends[1].ok
    /\ Written(rds0, rds) # {}
    /\ table[sub.id].last_checked_at = now

\* ------------------------------------------------------------------- C29
\* the prices of the offers grouped under one date
PricesOf(date_offers) == {date_offers[n].price : n \in 1..Len(date_offers)}

\* the least of a set of prices
Cheapest(P) == CHOOSE p \in P : \A q \in P : p <= q

\* an offer with a price within the ceiling and a departure within the range
Qualifies(f, s) ==
    /\ f.price # None
    /\ f.price <= s.max_price
    /\ f.departure_at # None
    /\ s.range_from <= f.departure_at \div 100
    /\ f.departure_at \div 100 <= s.range_to

\* C29: the offers of an answer that qualify are grouped by calendar date,
\* one group per date whatever the hour of departure; when the pass
\* evaluates a date, the price it holds against the stored floor is the
\* least price of that date's group: a candidate it queues is an offer of
\* that group at that price, stored under that date's key, and a date it
\* passes over has a floor which that least price does not undercut by 2
\* per cent.
C29_CheapestOfDateCompared ==
    /\ [](\A a, b \in 1..Len(offers_by_date) :
              a # b => offers_by_date[a][1] # offers_by_date[b][1])
    /\ [][(Len(fetch_log') = Len(fetch_log) + 1
           /\ fetch_log'[Len(fetch_log')][2] = "ok") =>
              \E offers \in ApiResponses(sub.origin, sub.destination, Head(months),
                                         api_mode) :
                  /\ GroupedOffers'
                        = {offers[n] : n \in {m \in 1..Len(offers) :
                                                Qualifies(offers[m], sub)}}
                  /\ \A k \in 1..Len(offers_by_date') :
                        \A n \in 1..Len(offers_by_date'[k][2]) :
                            offers_by_date'[k][1]
                               = strftime_Ymd(offers_by_date'[k][2][n].departure_at \div 100)]_vars
    /\ [][evaluated' \ evaluated # {} =>
              LET date_str == Head(offers_by_date)[1]
                  least == Cheapest(PricesOf(Head(offers_by_date)[2]))
              IN /\ evaluated' = evaluated \cup {SubKey(date_str)}
                 /\ IF Len(notifications_to_send') > Len(notifications_to_send)
                    THEN LET c == notifications_to_send'[Len(notifications_to_send')]
                         IN /\ c.new_price = least
                            /\ c.offer.price = least
                            /\ \E n \in 1..Len(Head(offers_by_date)[2]) :
                                  Head(offers_by_date)[2][n] = c.offer
                            /\ strftime_Ymd(c.offer.departure_at \div 100) = date_str
                            /\ c.tracking_key = SubKey(date_str)
                    ELSE /\ SubKey(date_str) \in DOMAIN rds
                         /\ ~SignificantDrop(least, float_str(rds[SubKey(date_str)].value))]_vars

\* 3 December came back twice, at 1000 in the morning and at 980 in the
\* evening: one group holds both offers
C29_Witness ==
    /\ pc = "dates"
    /\ Len(offers_by_date) = 1
    /\ offers_by_date[1][1] = <<2025, 12, 3>>
    /\ offers_by_date[1][2] = <<Offer(1000, 2025120308), Offer(980, 2025120320)>>

\* the evening offer at 980 is the candidate queued for 3 December against a
\* floor of 1000
C29_EveningOfferQueued ==
    /\ Len(notifications_to_send) = 1
    /\ notifications_to_send[1].offer = Offer(980, 2025120320)
    /\ notifications_to_send[1].old_price = 1000
    /\ notifications_to_send[1].tracking_key = SubKey(<<2025, 12, 3>>)

\* ------------------------------------------------------------------- C30
\* the pass of a watch whose range is not over was left by an exception or
\* ended by a signal before its schedule was advanced
Aborted ==
    /\ pc \in {"raised", "exited"}
    /\ sub # NoSub
    /\ ~(sub.range_to < today)

\* C30: after such a pass the watch's row is as fetch_due returned it, so
\* the watch is still due; the step that aborts the pass and the handling of
\* the exception leave the cache and the record of the sends as they are.
C30_AbortLeavesWatchDue ==
    /\ [](Aborted =>
              /\ sub.id \in DOMAIN table
              /\ table[sub.id] = sub
              /\ IsDue(table[sub.id], now))
    /\ [][(pc' \in {"raised", "exited"} /\ pc' # pc) =>
              /\ rds' = rds
              /\ sends' = sends
              /\ table' = table]_vars
    /\ [][(pc \in {"raised", "exited"}) =>
              /\ rds' = rds
              /\ table' = table
              /\ notified' = Delivered(sends, notified)]_vars

\* the first batch was delivered and its floors stored when a Redis lookup
\* for the second batch raised: the floors stay, the watch is due as before
C30_Witness ==
    /\ Aborted
    /\ pc = "raised"
    /\ Len(sends) = 1
    /\ sends[1].ok
    /\ sends[1].recorded = batch_size
    /\ Cardinality(Written(rds0, rds)) = batch_size
    /\ table[sub.id] = sub
    /\ IsDue(sub, now)

\* a signal ended the worker between a delivered batch and the schedule
\* advance
C30_Interrupted ==
    /\ Aborted
    /\ pc = "exited"
    /\ \E k \in 1..Len(sends) : sends[k].ok
    /\ Written(rds0, rds) # {}
    /\ table[sub.id] = sub

C31_Starved ==
    /\ pc = "raised"
    /\ cycle = 2
    /\ sub.id = 2
    /\ due = <<QuietRow>>
    /\ table[3] = QuietRow

\* ------------------------------------------------------------------- C32
\* C32: a pass whose watch the owner deleted after fetch_due returned it does
\* not raise.
C32_DeletedWatchPassFinishes ==
    ~(/\ pc = "raised"
      /\ sub # NoSub
      /\ faults = 0
      /\ call.op = "delete"
      /\ call.id = sub.id
      /\ sub.id \notin DOMAIN table)

\* ------------------------------------------------------------------- C33
\* the owner's last call changed the watch in hand before its pass began
BeforePass == sub # NoSub /\ call.id = sub.id /\ call.in_hand # sub.id

\* C33: a pass whose watch the owner had deleted before the pass began hands
\* nothing to send_message, neither offers nor an expiry notice.
C33_NothingSentForDeletedWatch ==
    (call.op = "delete" /\ BeforePass) =>
        /\ sends = <<>>
        /\ pc \notin {"expired_delete"}

\* ------------------------------------------------------------------- C34
\* C34: when the owner lowered the ceiling of a watch before its pass began,
\* every offer the pass hands to send_message costs no more than the ceiling
\* the store holds.
C34_SentOffersWithinStoredCeiling ==
    (call.op = "update_max_price" /\ BeforePass /\ sub.id \in DOMAIN table) =>
        \A k \in 1..Len(sends) : \A n \in 1..Len(sends[k].batch) :
            sends[k].batch[n].offer.price <= table[sub.id].max_price

\* ------------------------------------------------------------------- C35
\* no two queued candidates of the pass share a price-floor key
DistinctKeys(nts) ==
    \A a, b \in 1..Len(nts) : a # b => nts[a].tracking_key # nts[b].tracking_key

\* every answer the pass has received holds only departures of the month asked
AnswersKeptToMonth == \A k \in 1..Len(fetch_log) : fetch_log[k][4]

\* C35 as stated: whatever the pricing API answers, no two candidates of one
\* pass share a price-floor key.
C35_DistinctKeysWhateverTheApi == DistinctKeys(notifications_to_send)

\* C35: while every answer of the pass holds only departures of the month that
\* was asked for, no two collected candidates share a price-floor key, and no
\* batch handed to send_message names a departure date twice.
C35_DistinctKeysWhenMonthsKept ==
    AnswersKeptToMonth =>
        /\ DistinctKeys(notifications_to_send)
        /\ \A k \in 1..Len(sends) : DistinctKeys(sends[k].batch)

\* two months answered in kind, each adding candidates of its own dates
C35_Witness ==
    /\ AnswersKeptToMonth
    /\ Len(fetch_log) >= 2
    /\ \E a, b \in 1..Len(notifications_to_send) :
          strftime_Ym(isoparse_date(notifications_to_send[a].dep))
              # strftime_Ym(isoparse_date(notifications_to_send[b].dep))
    /\ \E a, b \in 1..Len(notifications_to_send) :
          /\ a # b
          /\ strftime_Ym(isoparse_date(notifications_to_send[a].dep))
                = strftime_Ym(isoparse_date(notifications_to_send[b].dep))

\* the January answer repeats 3 December: the date is queued a second time
C35_SameDateQueuedTwice ==
    /\ ~AnswersKeptToMonth
    /\ ~DistinctKeys(notifications_to_send)

\* ------------------------------------------------------------------- C36
\* the candidate whose record the step at pc = "update" writes
WrittenNotif == NotifOfBatch(notifications_to_send, i, j)

C37_EveryRecordExpires == \A key \in DOMAIN rds : rds[key].ttl # NoTTL

\* ------------------------------------------------------------------- C38
\* the last call named a watch that existed and belonged to the caller
OwnerMatched ==
    /\ call.id \in DOMAIN call.before
    /\ call.before[call.id].user_id = call.user_id

\* C38: delete and update_max_price change a watch only when the id and the
\* owner both match: then delete removes that watch alone and returns its id,
\* update_max_price sets that watch's ceiling alone and returns True.  With
\* another owner or an id that does not exist they return 0 / False and the
\* table is as it was, and the disable button answers "not found".
C38_OnlyOwnerChangesWatch ==
    /\ call.op = "delete" =>
          IF OwnerMatched
          THEN /\ DOMAIN table = DOMAIN call.before \ {call.id}
               /\ \A id \in DOMAIN table : table[id] = call.before[id]
               /\ call.result = call.id
               /\ call.answer \in {"disabled", "deleted"}
          ELSE /\ table = call.before
               /\ call.result = 0
               /\ call.answer \in {"not_found", "not_deleted"}
    /\ call.op = "update_max_price" =>
          IF OwnerMatched
          THEN /\ DOMAIN table = DOMAIN call.before
               /\ table[call.id].max_price = call.max_price
               /\ \A id \in DOMAIN table :
                     [table[id] EXCEPT !.max_price = 0]
                        = [call.before[id] EXCEPT !.max_price = 0]
               /\ \A id \in DOMAIN table \ {call.id} : table[id] = call.before[id]
               /\ call.result = TRUE
          ELSE /\ table = call.before
               /\ call.result = FALSE

\* the disable button pressed again for a watch its owner has already deleted
C38_Witness ==
    /\ call.op = "delete"
    /\ call.id \in {1, 2, 3}
    /\ call.id \notin DOMAIN call.before
    /\ call.user_id = 100 + call.id
    /\ call.result = 0
    /\ call.answer = "not_found"
    /\ table = call.before

\* a stranger's delete of an existing watch changes nothing
C38_StrangerRefused ==
    /\ call.op = "delete"
    /\ call.id \in DOMAIN table
    /\ call.user_id # table[call.id].user_id
    /\ call.result = 0

\* a stranger's price for an existing watch is not stored
C38_StrangerPriceRefused ==
    /\ call.op = "update_max_price"
    /\ call.id \in DOMAIN table
    /\ call.user_id # table[call.id].user_id
    /\ table[call.id].max_price # call.max_price
    /\ call.result = FALSE

\* ------------------------------------------------------------------- C39
\* parse_text_request is running or has returned
Parsing == call.op = "parse_text_request"

\* a request after which the loop goes round again, when it may
TimedOut(r) == (r.status = None /\ r.body = "unread") \/ r.body = "timeout"

\* the k-th request of the call was the last one
LastRequest(k) == k = Len(call.requests)

\* the call made three requests and returned None
GaveUpAfterThree ==
    Len(call.requests) = Attempts /\ pc = "returned" /\ call.result = ReturnsNone

\* C39 as stated, reading the status line: at most 3 requests; after 502, 503
\* or a timeout the call goes on to the next request until 3 are made and then
\* returns None; after any other non-200 status it returns None at once; after
\* a status of 200 it makes no further request.
C39_ThreeRequestsByStatus ==
    Parsing =>
       /\ Len(call.requests) <= Attempts
       /\ \A k \in 1..Len(call.requests) :
             LET r == call.requests[k]
             IN /\ (r.status \in {502, 503} \/ (r.status = None /\ r.body = "unread")) =>
                      ((LastRequest(k) /\ pc # "post") => GaveUpAfterThree)
                /\ r.status \in Statuses \ {200, 502, 503} =>
                      LastRequest(k) /\ pc = "returned" /\ call.result = ReturnsNone
                /\ r.status = 200 => LastRequest(k)

\* C39: at most 3 requests per call.  After 502, 503 or a timeout (before the
\* status line or while the body is read) the call goes on to the next
\* request until 3 are made and then returns None; after another non-200
\* status whose body was read it returns None at once; after a 200 whose body
\* was read it makes no further request; every request but the last was a
\* 502, a 503 or a timeout.
C39_ThreeRequestsAtMost ==
    Parsing =>
       /\ Len(call.requests) <= Attempts
       /\ Len(call.requests) = IF pc = "post" THEN call.attempt ELSE Len(call.requests)
       /\ \A k \in 1..Len(call.requests) :
             LET r == call.requests[k]
             IN /\ (r.status \in {502, 503} \/ TimedOut(r)) =>
                      ((LastRequest(k) /\ pc # "post") => GaveUpAfterThree)
                /\ (r.status \in Statuses \ {200, 502, 503} /\ r.body = "read") =>
                      LastRequest(k) /\ pc = "returned" /\ call.result = ReturnsNone
                /\ (r.status = 200 /\ r.body = "read") =>
                      LastRequest(k) /\ pc \in {"after_loop", "returned"}
                /\ ~LastRequest(k) => (r.status \in {502, 503} \/ TimedOut(r))
       /\ pc = "returned" => call.result # Pending

\* 502, a timeout and 503: the third request is the last and None is returned
C39_Witness ==
    /\ Parsing
    /\ GaveUpAfterThree
    /\ call.requests[1].status = 502
    /\ call.requests[2].status = None
    /\ call.requests[3].status = 503
    /\ now = StartTime + RetrySleep + PostTimeout

\* a 200 on the second request ends the loop and its dict is returned
C39_AnsweredOnSecondRequest ==
    /\ Parsing
    /\ pc = "returned"
    /\ Len(call.requests) = 2
    /\ call.requests[2] = Request(200, "read")
    /\ call.result \notin {ReturnsNone, Pending}

\* a 500 on the first request: None after one request
C39_RefusedOnFirstRequest ==
    /\ Parsing
    /\ pc = "returned"
    /\ call.requests = <<Request(500, "read")>>
    /\ call.result = ReturnsNone

\* a 200 whose body timed out was followed by another request
C39_RequestAfterOk ==
    /\ Parsing
    /\ Len(call.requests) >= 2
    /\ call.requests[1] = Request(200, "timeout")

====
